---- MODULE Spec2Model ----
(***************************************************************************)
(* Model of GraphAnalyticsAgent (src/ai/agent/graph_analytics_agent.py):   *)
(* the router that selects a graph-analytics tool for a question, builds   *)
(* its arguments, calls it through the MCP client and summarizes the       *)
(* result.  Coroutines are modelled at the granularity of the asyncio      *)
(* event loop: one action is the code that runs between two suspension     *)
(* points (await on create_client, list_tools, call_tool, close, or on a   *)
(* held lock).  Strings that the code inspects character by character      *)
(* (questions, keywords) are sequences of one-character strings.           *)
(***************************************************************************)
EXTENDS Integers, Sequences, FiniteSets, TLC

(***************************************************************************)
(* Python / JSON values.  A value is a record with a single field naming   *)
(* its type; numbers keep their literal text (they are never computed on). *)
(***************************************************************************)
PyNone == [null |-> TRUE]
JStr(s) == [str |-> s]
\* A str held as a sequence of characters (text cut out of a question).
JChars(s) == [chars |-> s]
JNum(n) == [num |-> n]
JArr(a) == [arr |-> a]
JObj(m) == [obj |-> m]
\* json.dumps(v): the JSON text of v.
JsonDumps(v) == [dumps |-> v]

IsNone(v) == DOMAIN v = {"null"}
IsStr(v) == DOMAIN v = {"str"} \/ DOMAIN v = {"chars"}
IsNum(v) == DOMAIN v = {"num"}
IsArr(v) == DOMAIN v = {"arr"}
IsDict(v) == DOMAIN v = {"obj"}

\* Python truthiness of a value (operand of `or`, `if`, `not`).
Truthy(v) ==
    IF IsNone(v) THEN FALSE
    ELSE IF DOMAIN v = {"str"} THEN v.str # ""
    ELSE IF DOMAIN v = {"chars"} THEN v.chars # <<>>
    ELSE IF IsNum(v) THEN v.num \notin {"0", "0.0"}
    ELSE IF IsArr(v) THEN Len(v.arr) > 0
    ELSE IF IsDict(v) THEN DOMAIN v.obj # {}
    ELSE TRUE

\* a or b
PyOr(a, b) == IF Truthy(a) THEN a ELSE b

\* Lists and dicts are unhashable: `x in some_dict` raises TypeError.
Hashable(v) == ~ IsArr(v) /\ ~ IsDict(v)

\* The empty mapping {} and plain mappings (functions from key to value).
EmptyMap == [k \in {} |-> PyNone]

\* m.get(k) and m.get(k, d) on a plain mapping.
MapGet(m, k) == IF k \in DOMAIN m THEN m[k] ELSE PyNone
MapGetDefault(m, k, d) == IF k \in DOMAIN m THEN m[k] ELSE d

\* dict.update: keys of o replace or extend those of m.
MapUpdate(m, o) ==
    [k \in (DOMAIN m) \cup (DOMAIN o) |-> IF k \in DOMAIN o THEN o[k] ELSE m[k]]

\* dict.setdefault(k, v): only adds k when it is missing.
MapSetDefault(m, k, v) ==
    [j \in (DOMAIN m) \cup {k} |-> IF j \in DOMAIN m THEN m[j] ELSE v]

(***************************************************************************)
(* Characters and strings-as-sequences.                                    *)
(***************************************************************************)
Uppers == 
    <<"A","B","C","D","E","F","G","H","I","J","K","L","M",
      "N","O","P","Q","R","S","T","U","V","W","X","Y","Z">>
Lowers == 
    <<"a","b","c","d","e","f","g","h","i","j","k","l","m",
      "n","o","p","q","r","s","t","u","v","w","x","y","z">>
UpperChars == {Uppers[i] : i \in 1..Len(Uppers)}
LowerChars == {Lowers[i] : i \in 1..Len(Lowers)}
DigitChars == {"0", "1", "2", "3", "4", "5", "6", "7", "8", "9"}

\* str.lower() on one character.
LowerChar(c) ==
    IF c \in UpperChars THEN Lowers[CHOOSE i \in 1..Len(Uppers) : Uppers[i] = c] ELSE c

Lower(s) == [i \in 1..Len(s) |-> LowerChar(s[i])]

\* `k in s` for strings.
IsSubstr(k, s) ==
    \E i \in 0..(Len(s) - Len(k)) : SubSeq(s, i + 1, i + Len(k)) = k

\* s.startswith(k)
StartsWith(s, k) == Len(k) <= Len(s) /\ SubSeq(s, 1, Len(k)) = k

\* s.split(): the maximal runs of non-whitespace characters, in order.
RECURSIVE SplitFrom(_, _, _)
SplitFrom(s, i, cur) ==
    IF i > Len(s)
    THEN IF cur = <<>> THEN <<>> ELSE <<cur>>
    ELSE IF s[i] = " "
         THEN (IF cur = <<>> THEN <<>> ELSE <<cur>>) \o SplitFrom(s, i + 1, <<>>)
         ELSE SplitFrom(s, i + 1, Append(cur, s[i]))

Split(s) == SplitFrom(s, 1, <<>>)

\* s.strip(chars)
RECURSIVE LStrip(_, _)
LStrip(s, chars) ==
    IF s # <<>> /\ s[1] \in chars THEN LStrip(Tail(s), chars) ELSE s

RECURSIVE RStrip(_, _)
RStrip(s, chars) ==
    IF s # <<>> /\ s[Len(s)] \in chars
    THEN RStrip(SubSeq(s, 1, Len(s) - 1), chars)
    ELSE s

Strip(s, chars) == RStrip(LStrip(s, chars), chars)

(***************************************************************************)
(* _extract_geo_filters: re.findall(r"in ([A-Z][A-Za-z0-9_ -]+)", q),      *)
(* each match stripped of " ,.".                                           *)
(***************************************************************************)
GeoFirstChars == UpperChars
\* The character class of the run without the space.
GeoRunChars_no_space == UpperChars \cup LowerChars \cup DigitChars \cup {"_", "-"}
GeoRunChars == UpperChars \cup LowerChars \cup DigitChars \cup {"_", " ", "-"}
GeoStripChars == {" ", ",", "."}

\* Last index of the greedy run of GeoRunChars starting at i (i - 1 if none).
RECURSIVE RunEnd(_, _)
RunEnd(s, i) ==
    IF i <= Len(s) /\ s[i] \in GeoRunChars THEN RunEnd(s, i + 1) ELSE i - 1

\* Does the pattern match with "in " starting at position i?
GeoMatchAt(s, i) ==
    /\ i + 4 <= Len(s)
    /\ s[i] = "i" /\ s[i + 1] = "n" /\ s[i + 2] = " "
    /\ s[i + 3] \in GeoFirstChars
    /\ s[i + 4] \in GeoRunChars

\* findall: leftmost, non-overlapping matches; the group starts at i + 3.
RECURSIVE FindAllFrom(_, _)
FindAllFrom(s, i) ==
    IF i > Len(s) THEN <<>>
    ELSE IF GeoMatchAt(s, i)
         THEN <<SubSeq(s, i + 3, RunEnd(s, i + 4))>>
                  \o FindAllFrom(s, RunEnd(s, i + 4) + 1)
         ELSE FindAllFrom(s, i + 1)

extract_geo_filters(question) ==
    LET matches == FindAllFrom(question, 1)
    IN  [i \in 1..Len(matches) |-> Strip(matches[i], GeoStripChars)]


(***************************************************************************)
(* ToolConfig and the built-in registry.                                   *)
(***************************************************************************)
ToolConfig(name, keywords, defaults, summary_builder) ==
    [name |-> name, keywords |-> keywords, defaults |-> defaults,
     summary_builder |-> summary_builder]

\* summary_builder = None
NoBuilder == "None"

build_default_configs ==
    << ToolConfig("article_rank",
          << <<"i","n","f","l","u","e","n","c","e","r">>,
             <<"i","m","p","o","r","t","a","n","t">>,
             <<"c","e","n","t","r","a","l">>,
             <<"r","a","n","k">>,
             <<"p","a","g","e","r","a","n","k">> >>,
          [maxIterations |-> JNum("20"), tolerance |-> JNum("0.0001")],
          "summarize_rankings"),
       ToolConfig("leiden",
          << <<"c","o","m","m","u","n","i","t","y">>,
             <<"c","l","u","s","t","e","r">>,
             <<"g","r","o","u","p">>,
             <<"m","o","d","u","l","a","r","i","t","y">> >>,
          [minCommunitySize |-> JNum("5"), tolerance |-> JNum("0.0001")],
          "summarize_leiden"),
       ToolConfig("bridges",
          << <<"b","r","i","d","g","e">>,
             <<"b","o","t","t","l","e","n","e","c","k">>,
             <<"c","r","i","t","i","c","a","l"," ","c","o","n","n","e","c","t","i","o","n">>,
             <<"c","u","t"," ","e","d","g","e">> >>,
          EmptyMap,
          "summarize_bridges"),
       ToolConfig("count_nodes",
          << <<"c","o","u","n","t"," ","n","o","d","e","s">>,
             <<"s","i","z","e">>,
             <<"h","o","w"," ","m","a","n","y"," ","n","o","d","e","s">>,
             <<"d","a","t","a","s","e","t"," ","s","i","z","e">> >>,
          EmptyMap,
          "summarize_text_result") >>

\* The names of a sequence of configs.
NamesOf(configs) == {configs[i].name : i \in 1..Len(configs)}

\* {config.name: config for config in configs}: a dict keeps the position of
\* the first occurrence of a key and the value of the last one.
RECURSIVE DictOf(_)
DictOf(configs) ==
    IF configs = <<>> THEN <<>>
    ELSE LET init == DictOf(SubSeq(configs, 1, Len(configs) - 1))
             last == configs[Len(configs)]
         IN  IF last.name \in NamesOf(init)
             THEN [i \in 1..Len(init) |->
                      IF init[i].name = last.name THEN last ELSE init[i]]
             ELSE Append(init, last)

\* [cfg for cfg in configs if cfg.name in allowed]
RECURSIVE FilterAllowed(_, _)
FilterAllowed(configs, allowed) ==
    IF configs = <<>> THEN <<>>
    ELSE (IF configs[1].name \in allowed THEN <<configs[1]>> ELSE <<>>)
             \o FilterAllowed(Tail(configs), allowed)

\* BuildRegistry without the allow-list filter.
BuildRegistry_unfiltered(supplied, allowed) ==
    DictOf(IF IsNone(supplied) THEN build_default_configs ELSE supplied.arr)

\* __init__: the registry built from the supplied list (PyNone: use the
\* built-in ones) and the allow-list (a set of names, empty: no filtering).
BuildRegistry(supplied, allowed) ==
    LET configs == IF IsNone(supplied) THEN build_default_configs ELSE supplied.arr
        kept == IF allowed # {} THEN FilterAllowed(configs, allowed) ELSE configs
    IN  DictOf(kept)

\* self._tool_configs[name]
ConfigOf(registry, name) ==
    registry[CHOOSE i \in 1..Len(registry) : registry[i].name = name]

(***************************************************************************)
(* _infer_tool: first config, in registry order, one of whose keywords     *)
(* matches the lower-cased question.                                       *)
(***************************************************************************)
NoTool == "None"

\* KeywordMatches accepting every keyword.
KeywordMatches_any(kw, normalized) == TRUE

KeywordMatches(kw, normalized) ==
    LET kw_lower == Lower(kw)
        words == Split(normalized)
    IN  \/ IsSubstr(kw_lower, normalized)
        \/ \E w \in 1..Len(words) :
              IsSubstr(kw_lower, words[w]) \/ StartsWith(words[w], kw_lower)

\* ConfigMatches looking at the first keyword only.
ConfigMatches_first_keyword(config, normalized) ==
    config.keywords # <<>> /\ KeywordMatches(config.keywords[1], normalized)

ConfigMatches(config, normalized) ==
    \E k \in 1..Len(config.keywords) : KeywordMatches(config.keywords[k], normalized)

\* infer_tool returning the last matching configuration.
infer_tool_last_match(registry, question) ==
    LET normalized == Lower(question)
        hits == {i \in 1..Len(registry) : ConfigMatches(registry[i], normalized)}
    IN  IF hits = {} THEN NoTool
        ELSE registry[CHOOSE i \in hits : \A j \in hits : i >= j].name

infer_tool(registry, question) ==
    LET normalized == Lower(question)
        hits == {i \in 1..Len(registry) : ConfigMatches(registry[i], normalized)}
    IN  IF hits = {} THEN NoTool
        ELSE registry[CHOOSE i \in hits : \A j \in hits : i <= j].name

(***************************************************************************)
(* _prepare_inputs                                                         *)
(***************************************************************************)
GeoNodeLabels == JArr(<<JStr("Area"), JStr("Municipality")>>)

GeoFilterNames(geos) == JArr([i \in 1..Len(geos) |-> JChars(geos[i])])

\* prepare_inputs that always writes the agent's identifier property.
prepare_inputs_identifier_forced(config, question, overrides, default_identifier_property) ==
    LET inputs1 == MapUpdate(config.defaults,
                      [nodeIdentifierProperty |-> JStr(default_identifier_property)])
        geos == extract_geo_filters(question)
        inputs2 == IF geos # <<>>
                   THEN MapSetDefault(MapSetDefault(inputs1, "nodeLabels", GeoNodeLabels),
                                      "filterNames", GeoFilterNames(geos))
                   ELSE inputs1
    IN  IF DOMAIN overrides # {} THEN MapUpdate(inputs2, overrides) ELSE inputs2

\* prepare_inputs whose heuristic writes nodeLabels and filterNames over the
\* tool's defaults.
prepare_inputs_heuristic_replaces(config, question, overrides, default_identifier_property) ==
    LET inputs0 == config.defaults
        inputs1 == IF "nodeIdentifierProperty" \notin DOMAIN inputs0
                   THEN MapUpdate(inputs0,
                          [nodeIdentifierProperty |-> JStr(default_identifier_property)])
                   ELSE inputs0
        geos == extract_geo_filters(question)
        inputs2 == IF geos # <<>>
                   THEN MapUpdate(inputs1, [nodeLabels |-> GeoNodeLabels,
                                            filterNames |-> GeoFilterNames(geos)])
                   ELSE inputs1
    IN  IF DOMAIN overrides # {} THEN MapUpdate(inputs2, overrides) ELSE inputs2

prepare_inputs(config, question, overrides, default_identifier_property) ==
    LET inputs0 == config.defaults
        inputs1 == IF "nodeIdentifierProperty" \notin DOMAIN inputs0
                   THEN MapUpdate(inputs0,
                          [nodeIdentifierProperty |-> JStr(default_identifier_property)])
                   ELSE inputs0
        geos == extract_geo_filters(question)
        inputs2 == IF geos # <<>>
                   THEN MapSetDefault(MapSetDefault(inputs1, "nodeLabels", GeoNodeLabels),
                                      "filterNames", GeoFilterNames(geos))
                   ELSE inputs1
    IN  IF DOMAIN overrides # {} THEN MapUpdate(inputs2, overrides) ELSE inputs2

\* combine_inputs with the layers swapped: the selector's inputs win.
combine_inputs_selector_wins(llm_suggested_inputs, inputs) ==
    IF Truthy(inputs) THEN MapUpdate(inputs.obj, llm_suggested_inputs)
    ELSE llm_suggested_inputs

\* run(), lines 126-128: the selector's inputs updated with the caller's.
combine_inputs(llm_suggested_inputs, inputs) ==
    IF Truthy(inputs) THEN MapUpdate(llm_suggested_inputs, inputs.obj)
    ELSE llm_suggested_inputs

(***************************************************************************)
(* Summaries.  A summary string is the sequence of the pieces an f-string  *)
(* or a join concatenates: literal text as JStr, formatted values as the   *)
(* values themselves.  A summarizer yields [raised, value].                *)
(***************************************************************************)
Returned(v) == [raised |-> FALSE, value |-> v]
Raised == [raised |-> TRUE, value |-> <<>>]

\* s[:n]
Take(s, n) == SubSeq(s, 1, IF Len(s) < n THEN Len(s) ELSE n)

\* str(n) for the small counts that are formatted.
IntText(n) == JNum(<<"0", "1", "2", "3", "4", "5", "6", "7", "8", "9">>[n + 1])

\* sep.join(pieces), each piece a sequence of parts.
RECURSIVE Join(_, _)
Join(sep, pieces) ==
    IF pieces = <<>> THEN <<>>
    ELSE IF Len(pieces) = 1 THEN pieces[1]
    ELSE pieces[1] \o <<sep>> \o Join(sep, Tail(pieces))

\* The rows of a list are all dicts (row.get raises AttributeError otherwise).
AllDicts(rows) == \A i \in 1..Len(rows) : IsDict(rows[i])

summarize_rankings(content) ==
    IF content = <<>> THEN Returned(<<JStr("No influential nodes found.")>>)
    ELSE LET rows == MapGetDefault(content[1].obj, "json", JArr(content))
         IN  IF IsArr(rows)
             THEN LET top_rows == Take(rows.arr, 5)
                      formatted == [i \in 1..Len(top_rows) |->
                          << PyOr(MapGet(top_rows[i].obj, "nodeName"),
                                  MapGetDefault(top_rows[i].obj, "name", JStr("Unknown"))),
                             JStr(" (score="),
                             PyOr(MapGet(top_rows[i].obj, "score"),
                                  MapGet(top_rows[i].obj, "articleRank")),
                             JStr(")") >>]
                  IN  IF AllDicts(top_rows)
                      THEN Returned(<<JStr("Top ranked nodes: ")>>
                                       \o Join(JStr(", "), formatted))
                      ELSE Raised
             ELSE Returned(<<PyOr(MapGet(content[1].obj, "text"),
                                  JStr("Influence ranking computed."))>>)

summarize_leiden(content) ==
    IF content = <<>> THEN Returned(<<JStr("No communities detected.")>>)
    ELSE LET payload == content[1].obj
         IN  IF "json" \in DOMAIN payload /\ IsDict(payload["json"])
             THEN LET data == payload["json"].obj
                  IN  Returned(<< JStr("Detected "),
                                  MapGetDefault(data, "communityCount", JStr("multiple")),
                                  JStr(" communities. Largest size: "),
                                  MapGet(data, "largestCommunitySize"),
                                  JStr(", modularity: "),
                                  MapGet(data, "modularity") >>)
             ELSE Returned(<<MapGetDefault(payload, "text",
                                           JStr("Leiden algorithm completed."))>>)

summarize_bridges(content) ==
    IF content = <<>> THEN Returned(<<JStr("No bridge edges found.")>>)
    ELSE LET payload == content[1].obj
         IN  IF "json" \in DOMAIN payload /\ IsArr(payload["json"])
             THEN LET bridges == payload["json"].arr
                      shown == Take(bridges, 5)
                      examples == [i \in 1..Len(shown) |->
                          << MapGet(shown[i].obj, "source"), JStr("->"),
                             MapGet(shown[i].obj, "target") >>]
                  IN  IF AllDicts(shown)
                      THEN Returned(<< JStr("Found "), IntText(Len(bridges)),
                                       JStr(" bridge edges. Examples: ") >>
                                       \o Join(JStr(", "), examples))
                      ELSE Raised
             ELSE Returned(<<MapGetDefault(payload, "text",
                                           JStr("Bridge detection completed."))>>)

summarize_text_result(content) ==
    IF content = <<>> THEN Returned(<<JStr("No data returned.")>>)
    ELSE IF "text" \in DOMAIN content[1].obj
         THEN Returned(<<content[1].obj["text"]>>)
         ELSE Returned(<<JsonDumps(content[1])>>)

\* config.summary_builder(content).  Besides the four built-in summarizers a
\* caller may register any callable: one that always raises and one that
\* always returns stand for those.
summary_builder(builder, content) ==
    IF builder = "summarize_rankings" THEN summarize_rankings(content)
    ELSE IF builder = "summarize_leiden" THEN summarize_leiden(content)
    ELSE IF builder = "summarize_bridges" THEN summarize_bridges(content)
    ELSE IF builder = "summarize_text_result" THEN summarize_text_result(content)
    ELSE IF builder = "custom_raises" THEN Raised
    ELSE Returned(<<JStr("custom summary")>>)

\* _build_summary, lines 469-479: the default summary.
generic_summary(config, content) ==
    IF content = <<>>
    THEN << JStr("Tool '"), JStr(config.name), JStr("' returned no results.") >>
    ELSE IF Len(content) = 1 /\ "text" \in DOMAIN content[1].obj
         THEN << content[1].obj["text"] >>
         ELSE << JStr("Tool '"), JStr(config.name), JStr("' returned "),
                 IntText(Len(content)), JStr(" rows. First entry: "),
                 JsonDumps(JArr(Take(content, 1))) >>

\* build_summary without the try/except around the dedicated summarizer.
build_summary_no_fallback(config, content) ==
    IF config.summary_builder # NoBuilder
    THEN summary_builder(config.summary_builder, content).value
    ELSE generic_summary(config, content)

build_summary(config, content) ==
    IF config.summary_builder # NoBuilder
          /\ ~ summary_builder(config.summary_builder, content).raised
    THEN summary_builder(config.summary_builder, content).value
    ELSE generic_summary(config, content)

(***************************************************************************)
(* _select_tool_with_llm, the part that runs once the metadata is known.   *)
(* A completion is the sequence of the lines of its text; a line is blank  *)
(* (whitespace only), a code fence (starts with three backticks), a JSON   *)
(* document [doc |-> value], or other text.                                *)
(***************************************************************************)
BlankLine == [line |-> "blank"]
FenceLine == [line |-> "fence"]
OtherLine == [line |-> "other"]
DocLine(v) == [doc |-> v]

IsDocLine(l) == DOMAIN l = {"doc"}

\* create_completion(...) outcomes: an exception, None, or a text.
CompletionRaises == [kind |-> "raises", lines |-> <<>>]
CompletionNone == [kind |-> "none", lines |-> <<>>]
CompletionText(lines) == [kind |-> "text", lines |-> lines]

\* text.strip(): leading and trailing whitespace goes.
StripText(lines) == Strip(lines, {BlankLine})

\* Lines 393-395: drop the first and the last line of a fenced text.
Unfence(lines) ==
    IF lines # <<>> /\ lines[1] = FenceLine /\ Len(lines) > 2
    THEN SubSeq(lines, 2, Len(lines) - 1)
    ELSE lines

\* json.loads(text): succeeds when the text is one JSON document surrounded
\* by whitespace only.
JsonParses(lines) ==
    LET body == StripText(lines) IN Len(body) = 1 /\ IsDocLine(body[1])

JsonLoads(lines) == StripText(lines)[1].doc

\* _summarize_input_schema raises when "properties" is not a mapping.
summarize_input_schema_raises(schema) ==
    /\ IsDict(schema)
    /\ MapGet(schema.obj, "type") = JStr("object")
    /\ "properties" \in DOMAIN schema.obj
    /\ ~ IsDict(schema.obj["properties"])

\* The outcomes of a selection.
NoSelection(n) ==
    [kind |-> "none", tool |-> NoTool, inputs |-> EmptyMap, completions |-> n]
SelectionRaises(exc, n) ==
    [kind |-> exc, tool |-> NoTool, inputs |-> EmptyMap, completions |-> n]
Selected(tool, inputs, n) ==
    [kind |-> "selection", tool |-> tool, inputs |-> inputs, completions |-> n]

\* Lines 412-427: the parsed response turned into a selection.
selection_from_data(registry, data, n) ==
    IF ~ IsDict(data) THEN SelectionRaises("AttributeError", n)
    ELSE LET tool_name == PyOr(MapGet(data.obj, "tool"), MapGet(data.obj, "tool_name"))
             inputs == PyOr(PyOr(MapGet(data.obj, "inputs"),
                                 MapGet(data.obj, "arguments")),
                            JObj(EmptyMap))
         IN  IF IsNone(tool_name) THEN NoSelection(n)
             ELSE IF ~ Hashable(tool_name) THEN SelectionRaises("TypeError", n)
             ELSE IF ~ (DOMAIN tool_name = {"str"} /\ tool_name.str \in NamesOf(registry))
                  THEN NoSelection(n)
             ELSE Selected(tool_name.str,
                           IF IsDict(inputs) THEN inputs.obj ELSE EmptyMap, n)

\* Lines 353-410: the completion (n calls were made) read as JSON.
selection_from_completion(registry, completion, n) ==
    IF completion.kind = "raises" THEN NoSelection(n)
    ELSE IF completion.kind = "none" \/ StripText(completion.lines) = <<>>
         THEN NoSelection(n)
    ELSE LET text == Unfence(StripText(completion.lines))
         IN  IF JsonParses(text)
             THEN selection_from_data(registry, JsonLoads(text), n)
             ELSE NoSelection(n)

\* completion_calls asking again whenever the first answer was not a text.
completion_calls_retry_on_empty(first, second) ==
    IF first.kind = "text"
    THEN << [response_format |-> "json_object", outcome |-> first] >>
    ELSE << [response_format |-> "json_object", outcome |-> first],
            [response_format |-> "none", outcome |-> second] >>

\* Lines 359-378: the create_completion calls made, with the response_format
\* each was given and what it did; the retry is in the except branch.
completion_calls(first, second) ==
    IF first.kind # "raises"
    THEN << [response_format |-> "json_object", outcome |-> first] >>
    ELSE << [response_format |-> "json_object", outcome |-> first],
            [response_format |-> "none", outcome |-> second] >>

\* Lines 292-427.  metadata: the tool metadata (name -> tool); schema: what
\* load_cached_schema() does; first, second: what create_completion does with
\* and without response_format (second is only called when first raises).
select_tool_with_llm(registry, metadata, schema, first, second) ==
    IF DOMAIN metadata = {} THEN NoSelection(0)
    ELSE IF \E n \in DOMAIN metadata :
               summarize_input_schema_raises(MapGet(metadata[n].obj, "inputSchema"))
         THEN SelectionRaises("AttributeError", 0)
    ELSE IF schema = "raises" THEN SelectionRaises("SchemaError", 0)
    ELSE LET calls == completion_calls(first, second)
         IN  selection_from_completion(registry, calls[Len(calls)].outcome, Len(calls))

(***************************************************************************)
(* _get_tool_metadata, lines 258-266: the fetched tools filtered.          *)
(***************************************************************************)
\* tool.get("name") raises on a tool that is not a mapping, and the
\* membership tests raise on an unhashable name.
filter_raises(tools) ==
    \E i \in 1..Len(tools) :
        \/ ~ IsDict(tools[i])
        \/ /\ Truthy(MapGet(tools[i].obj, "name"))
           /\ ~ Hashable(MapGet(tools[i].obj, "name"))

KeptTool(tool, registry, allowed) ==
    LET name == MapGet(tool.obj, "name")
    IN  /\ Truthy(name)
        /\ DOMAIN name = {"str"}
        /\ (allowed # {} => name.str \in allowed)
        /\ name.str \in NamesOf(registry)

\* metadata[name] = tool, in order: the last tool of a name stays.
filter_tools(tools, registry, allowed) ==
    LET kept == {i \in 1..Len(tools) : KeptTool(tools[i], registry, allowed)}
        names == {tools[i].obj["name"].str : i \in kept}
    IN  [n \in names |->
            tools[CHOOSE i \in kept : /\ tools[i].obj["name"].str = n
                                      /\ \A j \in kept :
                                            tools[j].obj["name"].str = n => j <= i]]

(***************************************************************************)
(* Bounds and the inputs the environment may supply.                       *)
(***************************************************************************)
\* Concurrent callers of one agent.
Procs == {"p1", "p2"}
NoProc == "none"

\* run() and close() calls started on the agent in one behaviour.
MaxRuns == 2
MaxCloses == 1

\* Driver objects GraphDatabase.driver() can hand out in one behaviour.
MaxDrivers == 2
DriverIds == 1..MaxDrivers

\* Client objects create_client() can hand out (0 stands for None).
ClientIds == 1..(MaxRuns + MaxCloses)

QRankInOslo == <<"r","a","n","k"," ","i","n"," ","O","s","l","o">>
QRankIt == <<"R","a","n","k"," ","i","t">>
QHiThere == <<"h","i"," ","t","h","e","r","e">>
Questions == {QRankInOslo, QRankIt, QHiThere}
QInfluential ==
    <<"W","h","o"," ","a","r","e"," ","t","h","e"," ","m","o","s","t"," ","i","n","f","l","u","e","n","t","i","a","l"," ","p","e","o","p","l","e","?">>

\* A caller-supplied registry: the first tool defines every argument the
\* agent would otherwise fill in and has a summarizer that raises.
CustomConfigs ==
    << ToolConfig("geo_tool", << <<"O","s","l","o">> >>,
          [a |-> JNum("1"), nodeLabels |-> JArr(<<JStr("City")>>),
           nodeIdentifierProperty |-> JStr("id")],
          "custom_raises"),
       ToolConfig("plain_tool", << <<"r","a","n","k">> >>,
          [a |-> JNum("1")], NoBuilder) >>

\* A registry with one ranking tool, used with the keyword matcher only and
\* asked the two questions of ScenarioQuestions.
ScenarioConfigs ==
    << ToolConfig("ranking",
          << <<"i","n","f","l","u","e","n","c","e","r">>, <<"r","a","n","k">> >>,
          [maxIterations |-> JNum("20")], "summarize_rankings") >>
ScenarioQuestions == {QInfluential, QRankIt}

SuppliedConfigs == {PyNone, JArr(CustomConfigs), JArr(ScenarioConfigs)}
AllowLists == {{}, {"article_rank", "plain_tool"}, {"other_tool"}}

\* tool_name and inputs arguments of run().
ToolNameArgs == {NoTool, "article_rank", "plain_tool"}
InputArgs == {PyNone,
              JObj([b |-> JNum("3")]),
              JObj([a |-> JNum("9"), nodeLabels |-> JArr(<<JStr("Town")>>)])}

\* Calls that overlap in time all ask the same plain question without
\* inputs; a call with any other arguments runs while no other call is in
\* flight, and (callers being interchangeable) is made by the first caller.
FirstCaller == "p1"
PlainCall(question, tool_name, inputs) ==
    question = QRankIt /\ tool_name \in {NoTool, "plain_tool"} /\ inputs = PyNone

\* What list_tools() may return.
ToolEntry(name, description, schema) ==
    JObj([name |-> JStr(name), description |-> JStr(description), inputSchema |-> schema])
GoodSchema == JObj([type |-> JStr("object"), properties |-> JObj([a |-> JObj(EmptyMap)])])
BadSchema == JObj([type |-> JStr("object"), properties |-> JArr(<<JStr("a")>>)])
ListToolsResults ==
    { <<>>,
      << ToolEntry("article_rank", "v1", GoodSchema), ToolEntry("plain_tool", "v1", PyNone),
         ToolEntry("geo_tool", "v1", GoodSchema), ToolEntry("other_tool", "v1", PyNone) >>,
      << ToolEntry("plain_tool", "v2", GoodSchema), ToolEntry("article_rank", "v2", BadSchema) >>,
      << ToolEntry("other_tool", "v1", GoodSchema), JObj([description |-> JStr("nameless")]) >>,
      << JStr("not a mapping") >> }

\* What load_cached_schema() may do.
SchemaOutcomes == {"text", "None", "raises"}

\* What create_completion() may do.
SelectorInputs == [a |-> JNum("2"), b |-> JNum("2")]
Completions ==
    { CompletionRaises, CompletionNone,
      CompletionText(<<BlankLine>>),
      CompletionText(<<OtherLine>>),
      CompletionText(<<DocLine(JObj([tool |-> JStr("article_rank"),
                                     inputs |-> JObj(SelectorInputs)]))>>),
      CompletionText(<<BlankLine, FenceLine,
                       DocLine(JObj([tool |-> JStr("plain_tool"),
                                     inputs |-> JObj(SelectorInputs)])),
                       FenceLine>>),
      CompletionText(<<FenceLine,
                       DocLine(JObj([tool |-> JStr("plain_tool")]))>>),
      CompletionText(<<DocLine(JObj([tool_name |-> JStr("geo_tool"),
                                     arguments |-> JObj([nodeLabels |-> JArr(<<JStr("Village")>>),
                                                         nodeIdentifierProperty |-> JStr("uid")]),
                                     inputs |-> JArr(<<>>)]))>>),
      CompletionText(<<DocLine(JObj([tool |-> JStr("plain_tool"),
                                     inputs |-> JArr(<<JStr("a")>>)]))>>),
      CompletionText(<<DocLine(JObj([tool |-> PyNone]))>>),
      CompletionText(<<DocLine(JObj([tool |-> JStr("other_tool")]))>>),
      CompletionText(<<DocLine(JObj([tool |-> JArr(<<JStr("plain_tool")>>)]))>>),
      CompletionText(<<DocLine(JArr(<<JStr("plain_tool")>>))>>) }

\* What call_tool() may return, and the messages of the exceptions it raises.
RawResults ==
    { <<>>,
      << JObj([text |-> JStr("hello")]) >>,
      << JObj([json |-> JArr(<<JObj([name |-> JStr("Alice"), score |-> JNum("0.9")])>>)]) >>,
      << JObj([json |-> JArr(<<JNum("1")>>)]), JObj([text |-> JStr("second")]) >> }
CallToolErrors == {"boom", "timeout"}

(***************************************************************************)
(* State.                                                                  *)
(***************************************************************************)
VARIABLES
    tool_configs_arg,             \* the tool_configs argument of __init__
    init_error,                   \* the exception __init__ raised, or "none"
    unit,                         \* the last direct call of a helper and its result
    tool_configs,                 \* self._tool_configs, in insertion order
    allowed_tool_names,           \* self._allowed_tool_names
    use_llm_selector,             \* self._use_llm_selector
    default_identifier_property,  \* self._default_identifier_property
    client,                       \* self._client (0: None)
    client_lock,                  \* holder of self._client_lock, or NoProc
    lock_waiters,                 \* coroutines queued on the lock, in order
    tool_metadata,                \* self._tool_metadata
    tool_metadata_loaded,         \* self._tool_metadata_loaded
    backend,                      \* every client object: new, open, closing, closed
    pc,                           \* where each caller's coroutine is suspended
    frame,                        \* each caller's local variables and outcome
    runs,                         \* run() calls started so far
    closes,                       \* close() calls started so far
    driver,                       \* utils_neo4j._driver (0: None)
    drivers,                      \* every Driver object: created, verified, closed
    atexit_registered,            \* atexit.register(close_driver) calls made
    neo_call                      \* the last get_driver()/close_driver() call

vars == <<tool_configs_arg, init_error, unit, tool_configs, allowed_tool_names, use_llm_selector,
          default_identifier_property, client, client_lock, lock_waiters,
          tool_metadata, tool_metadata_loaded, backend, pc, frame, runs, closes,
          driver, drivers, atexit_registered, neo_call>>

config_vars == <<tool_configs_arg, init_error, tool_configs, allowed_tool_names,
                 use_llm_selector, default_identifier_property>>
\* What __init__ sets besides the registry.
setup_vars == <<tool_configs_arg, init_error, allowed_tool_names,
                use_llm_selector, default_identifier_property>>
lock_vars == <<client_lock, lock_waiters>>
neo_vars == <<driver, drivers, atexit_registered, neo_call>>
metadata_vars == <<tool_metadata, tool_metadata_loaded>>
agent_vars == <<config_vars, client, lock_vars, metadata_vars, backend, pc, frame,
                runs, closes>>

\* No exception, and the exceptions a call can end with.
NoError == [cls |-> "none", msg |-> <<>>]
GraphAnalyticsAgentError(msg) == [cls |-> "GraphAnalyticsAgentError", msg |-> msg]
OtherError(cls) == [cls |-> cls, msg |-> <<>>]

LlmExhaustedMsg ==
    << JStr("Could not infer a graph analytics tool for this question. The LLM tool selector did not find a suitable tool.") >>
KeywordExhaustedMsg ==
    << JStr("Could not infer a graph analytics tool for this question.") >>
UnsupportedMsg(tool_name) == << JStr("Unsupported tool: "), JStr(tool_name) >>
\* ToolCallFailedMsg without the tool name.
ToolCallFailedMsg_no_tool(tool_name, exc) ==
    << JStr("Tool call failed: "), JStr(exc) >>
ToolCallFailedMsg(tool_name, exc) ==
    << JStr("Tool call failed for '"), JStr(tool_name), JStr("': "), JStr(exc) >>

\* The locals of a coroutine; the fields after `error` record what the call
\* has done so far.
BlankFrame ==
    [op |-> "none", ctx |-> "none", question |-> <<>>, tool_name |-> NoTool,
     inputs |-> PyNone, llm_suggested_inputs |-> EmptyMap,
     prepared_inputs |-> EmptyMap, client |-> 0, result_content |-> <<>>,
     summary |-> <<>>, returned |-> FALSE, error |-> NoError,
     tool_name_arg |-> NoTool, selection |-> "skipped", completions |-> 0,
     list_tools |-> 0, infer_tool |-> 0, create_client |-> 0, call_tool |-> 0,
     called_tool |-> NoTool, prepared |-> FALSE, backend_exc |-> "none",
     fetched |-> "none", called_inputs |-> EmptyMap, backend_result |-> PyNone,
     result |-> PyNone]

\* No helper has been called directly.
NoUnit == [fn |-> "none"]

\* A Driver object not yet handed out, and no call of utils_neo4j made.
NoDriver == [created |-> FALSE, verified |-> FALSE, closed |-> FALSE]
NoNeoCall == [fn |-> "none", outcome |-> "none", driver |-> 0]

\* __init__ up to the registry: an empty registry raises ValueError and
\* leaves no usable agent.
Construct(supplied, allowed) ==
    /\ tool_configs_arg = supplied
    /\ allowed_tool_names = allowed
    /\ tool_configs = BuildRegistry(supplied, allowed)
    /\ init_error = IF tool_configs = <<>> THEN "ValueError" ELSE "none"

Init ==
    /\ \E supplied \in SuppliedConfigs, allowed \in AllowLists :
          Construct(supplied, allowed)
    /\ unit = NoUnit
    /\ use_llm_selector \in BOOLEAN
    /\ tool_configs_arg = JArr(ScenarioConfigs) => ~ use_llm_selector
    /\ default_identifier_property = "name"
    /\ client = 0
    /\ client_lock = NoProc
    /\ lock_waiters = <<>>
    /\ tool_metadata = EmptyMap
    /\ tool_metadata_loaded = FALSE
    /\ backend = [c \in ClientIds |-> "new"]
    /\ pc = [p \in Procs |-> "idle"]
    /\ frame = [p \in Procs |-> BlankFrame]
    /\ runs = 0
    /\ closes = 0
    /\ driver = 0
    /\ drivers = [d \in DriverIds |-> NoDriver]
    /\ atexit_registered = 0
    /\ neo_call = NoNeoCall

(***************************************************************************)
(* run(): the code between suspension points.                              *)
(***************************************************************************)
\* validate_and_prepare without the registry check: an unregistered name
\* goes on with the first registered configuration.
validate_and_prepare_unchecked(f, tool_name, llm_suggested_inputs) ==
    [f EXCEPT !.tool_name = tool_name,
              !.llm_suggested_inputs = llm_suggested_inputs,
              !.prepared_inputs =
                  prepare_inputs(IF tool_name \in NamesOf(tool_configs)
                                 THEN ConfigOf(tool_configs, tool_name)
                                 ELSE tool_configs[1],
                                 f.question,
                                 combine_inputs(llm_suggested_inputs, f.inputs),
                                 default_identifier_property),
              !.prepared = TRUE,
              !.ctx = "exec"]

\* Lines 122-130: validation and argument synthesis for the resolved name.
validate_and_prepare(f, tool_name, llm_suggested_inputs) ==
    IF tool_name \notin NamesOf(tool_configs)
    THEN [f EXCEPT !.tool_name = tool_name,
                   !.llm_suggested_inputs = llm_suggested_inputs,
                   !.error = GraphAnalyticsAgentError(UnsupportedMsg(tool_name))]
    ELSE [f EXCEPT !.tool_name = tool_name,
                   !.llm_suggested_inputs = llm_suggested_inputs,
                   !.prepared_inputs =
                       prepare_inputs(ConfigOf(tool_configs, tool_name), f.question,
                                      combine_inputs(llm_suggested_inputs, f.inputs),
                                      default_identifier_property),
                   !.prepared = TRUE,
                   !.ctx = "exec"]

\* no_tool_name falling back to the keyword matcher in semantic mode too.
no_tool_name_fallback(g) ==
    LET inferred == infer_tool(tool_configs, g.question)
        h == [g EXCEPT !.infer_tool = @ + 1]
    IN  IF inferred = NoTool
        THEN [h EXCEPT !.error = GraphAnalyticsAgentError(KeywordExhaustedMsg)]
        ELSE validate_and_prepare(h, inferred, EmptyMap)

\* Lines 107-120: no tool name after selection.
no_tool_name(g) ==
    IF use_llm_selector
    THEN [g EXCEPT !.error = GraphAnalyticsAgentError(LlmExhaustedMsg)]
    ELSE LET inferred == infer_tool(tool_configs, g.question)
             h == [g EXCEPT !.infer_tool = @ + 1]
         IN  IF inferred = NoTool
             THEN [h EXCEPT !.error = GraphAnalyticsAgentError(KeywordExhaustedMsg)]
             ELSE validate_and_prepare(h, inferred, EmptyMap)

\* Lines 98-130.  attempted: _select_tool_with_llm was called and sel is what
\* it did; otherwise selection was skipped.
resolve(f, attempted, sel) ==
    LET g == IF attempted
             THEN [f EXCEPT !.selection = IF sel.kind \in {"none", "selection"}
                                          THEN sel.kind ELSE "raised",
                            !.completions = sel.completions]
             ELSE f
        tool_name == IF attempted /\ sel.kind = "selection" THEN sel.tool ELSE f.tool_name
        llm_suggested_inputs ==
            IF attempted /\ sel.kind = "selection" THEN sel.inputs ELSE EmptyMap
    IN  IF attempted /\ sel.kind \notin {"none", "selection"}
        THEN [g EXCEPT !.error = OtherError(sel.kind)]
        ELSE IF tool_name # NoTool
        THEN validate_and_prepare(g, tool_name, llm_suggested_inputs)
        ELSE no_tool_name(g)

\* selection_needed ignoring the caller's tool name.
selection_needed_always(tool_name) == use_llm_selector

\* Line 99: is the selector consulted?
selection_needed(tool_name) == tool_name = NoTool /\ use_llm_selector

\* metadata_cached never finding the cache.
metadata_cached_never == FALSE

\* Line 253: is the cached metadata used?
metadata_cached == tool_metadata_loaded /\ DOMAIN tool_metadata # {}

\* defaults_after_prepare with _prepare_inputs writing into config.defaults
\* itself.
defaults_after_prepare_in_place(config, inputs) == inputs

\* Line 435: inputs = dict(config.defaults) is a copy; lines 438-448 write to
\* the copy, so config.defaults is afterwards what it was.
defaults_after_prepare(config, inputs) == config.defaults

\* self._tool_configs after _prepare_inputs(self._tool_configs[name], ...)
\* returned inputs.
registry_after_prepare(name, inputs) ==
    [i \in 1..Len(tool_configs) |->
        IF tool_configs[i].name = name
        THEN [tool_configs[i] EXCEPT
                 !.defaults = defaults_after_prepare(tool_configs[i], inputs)]
        ELSE tool_configs[i]]

\* self._tool_configs after the step of run() that took the frame from f to
\* g: line 129 is the only place of run() that hands a descriptor on.
registry_after(f, g) ==
    IF g.prepared /\ ~ f.prepared
    THEN registry_after_prepare(g.tool_name, g.prepared_inputs)
    ELSE tool_configs

\* The call ends (return or raise): its frame stays until the caller takes it.
Finish(p, f) ==
    /\ pc' = [pc EXCEPT ![p] = "done"]
    /\ frame' = [frame EXCEPT ![p] = f]

\* The client c is at hand: the awaited backend call is issued.
UseClient(p, f, c) ==
    IF f.ctx = "meta"
    THEN /\ pc' = [pc EXCEPT ![p] = "list_tools"]
         /\ frame' = [frame EXCEPT ![p] = [f EXCEPT !.client = c, !.list_tools = @ + 1]]
    ELSE /\ pc' = [pc EXCEPT ![p] = "call_tool"]
         /\ frame' = [frame EXCEPT ![p] = [f EXCEPT !.client = c, !.call_tool = @ + 1,
                                                    !.called_tool = f.tool_name,
                                                    !.called_inputs = f.prepared_inputs]]

\* async with self._client_lock: leaving the block wakes the first waiter.
ReleaseLock ==
    IF lock_waiters = <<>>
    THEN /\ client_lock' = NoProc
         /\ lock_waiters' = lock_waiters
    ELSE /\ client_lock' = Head(lock_waiters)
         /\ lock_waiters' = Tail(lock_waiters)

\* _get_client without the lock: a missing client is created at once.
get_client_unlocked(p, f) ==
    IF client # 0
    THEN /\ UseClient(p, f, client)
         /\ UNCHANGED lock_vars
    ELSE /\ UNCHANGED lock_vars
         /\ pc' = [pc EXCEPT ![p] = "create_client"]
         /\ frame' = [frame EXCEPT ![p] = [f EXCEPT !.create_client = @ + 1]]

\* _get_client up to its first suspension.
get_client(p, f) ==
    IF client # 0
    THEN /\ UseClient(p, f, client)
         /\ UNCHANGED lock_vars
    ELSE IF client_lock = NoProc
    THEN /\ client_lock' = p
         /\ lock_waiters' = lock_waiters
         /\ pc' = [pc EXCEPT ![p] = "create_client"]
         /\ frame' = [frame EXCEPT ![p] = [f EXCEPT !.create_client = @ + 1]]
    ELSE /\ lock_waiters' = Append(lock_waiters, p)
         /\ client_lock' = client_lock
         /\ pc' = [pc EXCEPT ![p] = "wait_lock"]
         /\ frame' = [frame EXCEPT ![p] = f]

\* After selection: the call has failed, or goes on to fetch the client.
Continue(p, f) ==
    IF f.error # NoError
    THEN Finish(p, f) /\ UNCHANGED lock_vars
    ELSE get_client(p, f)

\* The calls in flight besides p's: none, or only plain ones.
OthersIdle(p) == \A o \in Procs \ {p} : pc[o] = "idle"
OthersPlain(p) ==
    \A o \in Procs \ {p} :
        \/ pc[o] = "idle"
        \/ frame[o].op = "close"
        \/ PlainCall(frame[o].question, frame[o].tool_name_arg, frame[o].inputs)

\* What the collaborators answer to p: anything while p's call is the only
\* one in flight, one of a few representative answers while calls overlap.
CompletionsFor(p) ==
    IF OthersIdle(p) THEN Completions
    ELSE {c \in Completions :
             \/ c.kind = "raises"
             \/ /\ c.kind = "text"
                /\ Len(c.lines) = 1
                /\ IsDocLine(c.lines[1])
                /\ IsDict(c.lines[1].doc)
                /\ IsStr(MapGet(c.lines[1].doc.obj, "tool"))}
RawResultsFor(p) ==
    IF OthersIdle(p) THEN RawResults ELSE {<< JObj([text |-> JStr("hello")]) >>}
CallToolErrorsFor(p) ==
    IF OthersIdle(p) THEN CallToolErrors ELSE {"boom"}

\* Every outcome _select_tool_with_llm can have for p, over what the schema
\* provider and the completion backend may do.
SelectionsFor(p, metadata) ==
    UNION { UNION { { select_tool_with_llm(tool_configs, metadata, schema, first, second) :
                        second \in (IF first.kind = "raises" THEN CompletionsFor(p)
                                                               ELSE {CompletionNone}) } :
                    first \in CompletionsFor(p) } :
            schema \in SchemaOutcomes }

\* _select_tool_with_llm from line 292 on, then the rest of run().
Select(p, f, metadata) ==
    \E sel \in SelectionsFor(p, metadata) : Continue(p, resolve(f, TRUE, sel))

\* The questions asked of the agent.
QuestionsFor ==
    IF tool_configs_arg = JArr(ScenarioConfigs) THEN ScenarioQuestions ELSE Questions

\* A caller starts run(question, tool_name, inputs).
RunStart(p) ==
    /\ init_error = "none"
    /\ pc[p] = "idle"
    /\ runs < MaxRuns
    /\ runs' = runs + 1
    /\ OthersPlain(p)
    /\ \E question \in QuestionsFor, tool_name \in ToolNameArgs, inputs \in InputArgs :
          /\ (PlainCall(question, tool_name, inputs) \/ (p = FirstCaller /\ OthersIdle(p)))
          /\ LET f == [BlankFrame EXCEPT !.op = "run", !.question = question,
                                         !.tool_name = tool_name,
                                         !.tool_name_arg = tool_name,
                                         !.inputs = inputs]
             IN  IF selection_needed(tool_name)
                 THEN IF metadata_cached
                      THEN Select(p, f, tool_metadata)
                      ELSE get_client(p, [f EXCEPT !.ctx = "meta"])
                 ELSE Continue(p, resolve(f, FALSE, NoSelection(0)))
    /\ tool_configs' = registry_after(frame[p], frame'[p])
    /\ UNCHANGED <<setup_vars, neo_vars, unit, client, metadata_vars, backend, closes>>

\* A coroutine that waited for the lock gets it: the second check.
LockGranted(p) ==
    /\ pc[p] = "wait_lock"
    /\ client_lock = p
    /\ IF client = 0
       THEN /\ pc' = [pc EXCEPT ![p] = "create_client"]
            /\ frame' = [frame EXCEPT ![p].create_client = @ + 1]
            /\ UNCHANGED lock_vars
       ELSE /\ ReleaseLock
            /\ UseClient(p, frame[p], client)
    /\ UNCHANGED <<config_vars, neo_vars, unit, client, metadata_vars, backend, runs, closes>>

\* create_client() returns a new client object.
CreateClientReturns(p) ==
    /\ pc[p] = "create_client"
    /\ \E c \in ClientIds :
          /\ backend[c] = "new"
          /\ \A d \in ClientIds : backend[d] = "new" => c <= d
          /\ client' = c
          /\ backend' = [backend EXCEPT ![c] = "open"]
          /\ UseClient(p, frame[p], c)
    /\ ReleaseLock
    /\ UNCHANGED <<config_vars, neo_vars, unit, metadata_vars, runs, closes>>

\* CreateClientRaises leaving the lock with the coroutine that failed.
CreateClientRaises_keeps_lock(p) ==
    /\ pc[p] = "create_client"
    /\ UNCHANGED lock_vars
    /\ IF frame[p].ctx = "meta"
       THEN Finish(p, resolve(frame[p], TRUE, NoSelection(0)))
       ELSE Finish(p, [frame[p] EXCEPT !.error = OtherError("CreateClientError")])
    /\ UNCHANGED <<config_vars, neo_vars, unit, client, metadata_vars, backend, runs, closes>>

\* create_client() raises: absorbed while fetching metadata (lines 286-296),
\* not at line 131.
CreateClientRaises(p) ==
    /\ pc[p] = "create_client"
    /\ ReleaseLock
    /\ IF frame[p].ctx = "meta"
       THEN Finish(p, resolve(frame[p], TRUE, NoSelection(0)))
       ELSE Finish(p, [frame[p] EXCEPT !.error = OtherError("CreateClientError")])
    /\ UNCHANGED <<config_vars, neo_vars, unit, client, metadata_vars, backend, runs, closes>>

\* cache_after_fetch adding the fetched tools to those already cached.
cache_after_fetch_merge(cached, metadata) == MapUpdate(cached, metadata)

\* Line 270: self._tool_metadata = metadata replaces the cache as a whole.
cache_after_fetch(cached, metadata) == metadata

\* list_tools() returns: lines 258-272, then selection and the rest of run().
ListToolsReturns(p) ==
    /\ pc[p] = "list_tools"
    /\ \E tools \in ListToolsResults :
          IF filter_raises(tools)
          THEN /\ Finish(p, resolve([frame[p] EXCEPT !.fetched = "failed"],
                                    TRUE, NoSelection(0)))
               /\ UNCHANGED <<metadata_vars, lock_vars>>
          ELSE LET metadata == filter_tools(tools, tool_configs, allowed_tool_names)
               IN  IF DOMAIN metadata # {}
                   THEN /\ tool_metadata' = cache_after_fetch(tool_metadata, metadata)
                        /\ tool_metadata_loaded' = TRUE
                        /\ Select(p, [frame[p] EXCEPT !.fetched = "some"], metadata)
                   ELSE /\ UNCHANGED metadata_vars
                        /\ Select(p, [frame[p] EXCEPT !.fetched = "empty"],
                                  tool_metadata)
    /\ tool_configs' = registry_after(frame[p], frame'[p])
    /\ UNCHANGED <<setup_vars, neo_vars, unit, client, backend, runs, closes>>

\* list_tools() raises: absorbed (lines 286-296).
ListToolsRaises(p) ==
    /\ pc[p] = "list_tools"
    /\ Finish(p, resolve([frame[p] EXCEPT !.fetched = "failed"], TRUE, NoSelection(0)))
    /\ UNCHANGED <<config_vars, neo_vars, unit, client, lock_vars, metadata_vars, backend, runs, closes>>

\* GraphAnalyticsResult(...)
GraphAnalyticsResult(tool_name, inputs, raw_result, summary) ==
    [tool_name |-> tool_name, inputs |-> inputs, raw_result |-> raw_result,
     summary |-> summary]

\* CallToolReturns reporting the caller's overrides as the inputs.
CallToolReturns_reports_overrides(p) ==
    /\ pc[p] = "call_tool"
    /\ \E result_content \in RawResultsFor(p) :
          LET summary == build_summary(ConfigOf(tool_configs, frame[p].tool_name),
                                       result_content)
          IN  Finish(p, [frame[p] EXCEPT
                           !.backend_result = JArr(result_content),
                           !.result_content = result_content,
                           !.summary = summary,
                           !.result = GraphAnalyticsResult(
                                         frame[p].tool_name,
                                         IF Truthy(frame[p].inputs)
                                         THEN frame[p].inputs.obj ELSE EmptyMap,
                                         result_content, summary),
                           !.returned = TRUE])
    /\ UNCHANGED <<config_vars, neo_vars, unit, client, lock_vars, metadata_vars, backend, runs, closes>>

\* call_tool() returns: lines 140-147.
CallToolReturns(p) ==
    /\ pc[p] = "call_tool"
    /\ \E result_content \in RawResultsFor(p) :
          LET summary == build_summary(ConfigOf(tool_configs, frame[p].tool_name),
                                       result_content)
          IN  Finish(p, [frame[p] EXCEPT
                           !.backend_result = JArr(result_content),
                           !.result_content = result_content,
                           !.summary = summary,
                           !.result = GraphAnalyticsResult(frame[p].tool_name,
                                                           frame[p].prepared_inputs,
                                                           result_content, summary),
                           !.returned = TRUE])
    /\ UNCHANGED <<config_vars, neo_vars, unit, client, lock_vars, metadata_vars, backend, runs, closes>>

\* call_tool() raises: lines 135-138.
CallToolRaises(p) ==
    /\ pc[p] = "call_tool"
    /\ \E exc \in CallToolErrorsFor(p) :
          Finish(p, [frame[p] EXCEPT
                       !.backend_exc = exc,
                       !.error = GraphAnalyticsAgentError(
                                    ToolCallFailedMsg(frame[p].tool_name, exc))])
    /\ UNCHANGED <<config_vars, neo_vars, unit, client, lock_vars, metadata_vars, backend, runs, closes>>

(***************************************************************************)
(* close()                                                                 *)
(***************************************************************************)
CloseStart(p) ==
    /\ init_error = "none"
    /\ pc[p] = "idle"
    /\ OthersPlain(p)
    /\ closes < MaxCloses
    /\ closes' = closes + 1
    /\ IF client # 0
       THEN /\ pc' = [pc EXCEPT ![p] = "close"]
            /\ frame' = [frame EXCEPT ![p] = [BlankFrame EXCEPT !.op = "close",
                                                               !.client = client]]
            /\ backend' = [backend EXCEPT ![client] = "closing"]
       ELSE /\ Finish(p, [BlankFrame EXCEPT !.op = "close", !.returned = TRUE])
            /\ UNCHANGED backend
    /\ UNCHANGED <<config_vars, neo_vars, unit, client, lock_vars, metadata_vars, runs>>

\* CloseReturns leaving the cached reference in place.
CloseReturns_keeps_client(p) ==
    /\ pc[p] = "close"
    /\ backend' = [backend EXCEPT ![frame[p].client] = "closed"]
    /\ client' = client
    /\ Finish(p, [frame[p] EXCEPT !.returned = TRUE])
    /\ UNCHANGED <<config_vars, neo_vars, unit, lock_vars, metadata_vars, runs, closes>>

\* client.close() returns: the reference is cleared.
CloseReturns(p) ==
    /\ pc[p] = "close"
    /\ backend' = [backend EXCEPT ![frame[p].client] = "closed"]
    /\ client' = 0
    /\ Finish(p, [frame[p] EXCEPT !.returned = TRUE])
    /\ UNCHANGED <<config_vars, neo_vars, unit, lock_vars, metadata_vars, runs, closes>>

\* client.close() raises: the reference stays.
CloseRaises(p) ==
    /\ pc[p] = "close"
    /\ Finish(p, [frame[p] EXCEPT !.error = OtherError("CloseError")])
    /\ UNCHANGED <<config_vars, neo_vars, unit, client, lock_vars, metadata_vars, backend, runs, closes>>

\* The caller takes the result or the exception.
Return(p) ==
    /\ pc[p] = "done"
    /\ pc' = [pc EXCEPT ![p] = "idle"]
    /\ frame' = [frame EXCEPT ![p] = BlankFrame]
    /\ UNCHANGED <<config_vars, neo_vars, unit, client, lock_vars, metadata_vars, backend, runs, closes>>

Next ==
    \E p \in Procs :
        \/ RunStart(p)
        \/ LockGranted(p)
        \/ CreateClientReturns(p)
        \/ CreateClientRaises(p)
        \/ ListToolsReturns(p)
        \/ ListToolsRaises(p)
        \/ CallToolReturns(p)
        \/ CallToolRaises(p)
        \/ CloseStart(p)
        \/ CloseReturns(p)
        \/ CloseRaises(p)
        \/ Return(p)

Spec == Init /\ [][Next]_vars

\* Every awaited collaborator call returns or raises, and the event loop
\* resumes a coroutine that has been handed the lock.  For list_tools the
\* condition is put on the raising step alone: that step is enabled exactly
\* while the call is pending, so it says that the call does not stay pending
\* for ever, however it ends.
Fairness ==
    \A p \in Procs :
        /\ WF_vars(LockGranted(p))
        /\ WF_vars(CreateClientReturns(p) \/ CreateClientRaises(p))
        /\ WF_vars(ListToolsRaises(p))
        /\ WF_vars(CallToolReturns(p) \/ CallToolRaises(p))
        /\ WF_vars(CloseReturns(p) \/ CloseRaises(p))

\* One agent with the built-in registry and no allow-list, in either
\* selection mode.
LiveInit ==
    /\ Init
    /\ tool_configs_arg = PyNone
    /\ allowed_tool_names = {}

LiveSpec == LiveInit /\ [][Next]_vars /\ Fairness

TypeOK ==
    /\ client \in {0} \cup ClientIds
    /\ client_lock \in Procs \cup {NoProc}
    /\ pc \in [Procs -> {"idle", "wait_lock", "create_client", "list_tools",
                         "call_tool", "close", "done"}]
    /\ runs \in 0..MaxRuns
    /\ closes \in 0..MaxCloses

(***************************************************************************)
(* utils_neo4j: the Driver singleton.                                      *)
(***************************************************************************)
\* What get_driver() may find in the environment: one of NEO4J_URI,
\* NEO4J_USER, NEO4J_PASSWORD missing or empty; a timeout or pool setting
\* that float()/int() rejects; or a complete configuration.
NeoEnvironments == {"missing", "bad_setting", "complete"}

\* What GraphDatabase.driver() and verify_connectivity() may do.
NeoOutcomes == {"ok", "raises"}

NeoReturned(fn, d) == [fn |-> fn, outcome |-> "returned", driver |-> d]
NeoRaised(fn, exc) == [fn |-> fn, outcome |-> exc, driver |-> 0]

\* get_driver(), lines 21-46.
GetDriver ==
    /\ IF driver # 0
       THEN /\ neo_call' = NeoReturned("get_driver", driver)
            /\ UNCHANGED <<driver, drivers, atexit_registered>>
       ELSE \E env \in NeoEnvironments, create \in NeoOutcomes, verify \in NeoOutcomes :
               IF env = "missing"
               THEN /\ neo_call' = NeoRaised("get_driver", "RuntimeError")
                    /\ UNCHANGED <<driver, drivers, atexit_registered>>
               ELSE IF env = "bad_setting"
               THEN /\ neo_call' = NeoRaised("get_driver", "ValueError")
                    /\ UNCHANGED <<driver, drivers, atexit_registered>>
               ELSE IF create = "raises"
               THEN /\ neo_call' = NeoRaised("get_driver", "DriverError")
                    /\ UNCHANGED <<driver, drivers, atexit_registered>>
               ELSE \E d \in DriverIds :
                       /\ ~ drivers[d].created
                       /\ \A e \in DriverIds : ~ drivers[e].created => d <= e
                       /\ driver' = d
                       /\ IF verify = "raises"
                          THEN /\ drivers' = [drivers EXCEPT ![d].created = TRUE]
                               /\ neo_call' = NeoRaised("get_driver", "ServiceUnavailable")
                               /\ UNCHANGED atexit_registered
                          ELSE /\ drivers' = [drivers EXCEPT ![d].created = TRUE,
                                                              ![d].verified = TRUE]
                               /\ atexit_registered' = atexit_registered + 1
                               /\ neo_call' = NeoReturned("get_driver", d)
    /\ UNCHANGED <<agent_vars, unit>>

\* close_driver(), lines 66-71: the reference is cleared in a finally block.
CloseDriver ==
    /\ IF driver # 0
       THEN /\ driver' = 0
            /\ \E close \in NeoOutcomes :
                  IF close = "raises"
                  THEN /\ neo_call' = NeoRaised("close_driver", "CloseError")
                       /\ UNCHANGED drivers
                  ELSE /\ neo_call' = NeoReturned("close_driver", 0)
                       /\ drivers' = [drivers EXCEPT ![driver].closed = TRUE]
       ELSE /\ neo_call' = NeoReturned("close_driver", 0)
            /\ UNCHANGED <<driver, drivers>>
    /\ UNCHANGED <<atexit_registered, agent_vars, unit>>

NeoNext ==
    \/ GetDriver
    \/ CloseDriver

NeoSpec == Init /\ [][NeoNext]_vars

(***************************************************************************)
(* _summarize_schema_for_tool_selection, on texts as character sequences.  *)
(***************************************************************************)
\* The backtick character, which a string literal cannot hold.
Backtick == "BACKTICK"

\* The characters of the schema texts, in code point order.
CodePoints ==
    <<"\n"," ","#","(",")",",","-",".",":",">","A","B","C","G","I","K","N",
      "O","P","R","S","T","W","X","Z","[","]",Backtick,"a","b","c","d","e","g",
      "h","i","l","m","n","o","p","r","s","t","u","v","x","y","{","}">>
Ord(c) == CHOOSE i \in 1..Len(CodePoints) : CodePoints[i] = c

\* a < b for strings.
LexLess(a, b) ==
    \/ Len(a) < Len(b) /\ SubSeq(b, 1, Len(a)) = a
    \/ \E i \in 1..Len(a) :
          /\ i <= Len(b)
          /\ SubSeq(a, 1, i - 1) = SubSeq(b, 1, i - 1)
          /\ Ord(a[i]) < Ord(b[i])

\* sorted(set(items))
RECURSIVE SortedSet(_)
SortedSet(S) ==
    IF S = {} THEN <<>>
    ELSE LET least == CHOOSE x \in S : \A y \in S : x = y \/ LexLess(x, y)
         IN  <<least>> \o SortedSet(S \ {least})

\* s.split(ch): the pieces between consecutive occurrences of ch.
SplitOn(s, ch) ==
    LET cuts == {0} \cup {i \in 1..Len(s) : s[i] = ch} \cup {Len(s) + 1}
        cut(k) == CHOOSE c \in cuts : Cardinality({d \in cuts : d < c}) = k
    IN  [k \in 1..(Cardinality(cuts) - 1) |-> SubSeq(s, cut(k - 1) + 1, cut(k) - 1)]

\* sep.join(pieces) for strings.
RECURSIVE JoinStr(_, _)
JoinStr(sep, pieces) ==
    IF pieces = <<>> THEN <<>>
    ELSE IF Len(pieces) = 1 THEN pieces[1]
    ELSE pieces[1] \o sep \o JoinStr(sep, Tail(pieces))

\* s.strip()
Whitespace == {" ", "\t", "\n", "\r"}
StripWs(s) == Strip(s, Whitespace)

HeaderNodeProperties ==
    <<"N","o","d","e"," ","p","r","o","p","e","r","t","i","e","s",":">>
HeaderRelationshipProperties ==
    <<"R","e","l","a","t","i","o","n","s","h","i","p"," ","p","r","o","p",
      "e","r","t","i","e","s",":">>
HeaderTheRelationships ==
    <<"T","h","e"," ","r","e","l","a","t","i","o","n","s","h","i","p","s",
      ":">>
NodeLabelsPrefix ==
    <<"N","o","d","e"," ","l","a","b","e","l","s",":"," ">>
RelationshipTypesPrefix ==
    <<"R","e","l","a","t","i","o","n","s","h","i","p"," ","t","y","p","e",
      "s",":"," ">>
KeyRelationshipsPrefix ==
    <<"K","e","y"," ","r","e","l","a","t","i","o","n","s","h","i","p","s",
      ":","\n">>
CommaSpace ==
    <<","," ">>
Newline ==
    <<"\n">>
LabelStart ==
    <<":",Backtick>>
PatternMark ==
    <<")","-","[",":">>

SchemaNotAvailable ==
    <<"G","r","a","p","h"," ","s","c","h","e","m","a"," ","n","o","t"," ",
      "a","v","a","i","l","a","b","l","e",".">>
SchemaSummaryNotAvailable ==
    <<"G","r","a","p","h"," ","s","c","h","e","m","a"," ","s","u","m","m",
      "a","r","y"," ","n","o","t"," ","a","v","a","i","l","a","b","l","e",
      ".">>

\* The loop over the lines: the section being read and what was collected.
ScanStart == [section |-> "none", node_labels |-> <<>>, rel_types |-> <<>>,
              relationships |-> <<>>]

\* The second piece of the line split at the backtick character.
BacktickField(line) == SplitOn(line, Backtick)[2]

ScanLine(st, line) ==
    IF IsSubstr(HeaderNodeProperties, line) THEN [st EXCEPT !.section = "node_props"]
    ELSE IF IsSubstr(HeaderRelationshipProperties, line)
    THEN [st EXCEPT !.section = "rel_props"]
    ELSE IF IsSubstr(HeaderTheRelationships, line) THEN [st EXCEPT !.section = "rels"]
    ELSE IF st.section = "node_props" /\ StartsWith(StripWs(line), LabelStart)
    THEN IF BacktickField(line) # <<>>
         THEN [st EXCEPT !.node_labels = Append(@, BacktickField(line))]
         ELSE st
    ELSE IF st.section = "rel_props" /\ StartsWith(StripWs(line), LabelStart)
    THEN IF BacktickField(line) # <<>>
         THEN [st EXCEPT !.rel_types = Append(@, BacktickField(line))]
         ELSE st
    ELSE IF st.section = "rels" /\ IsSubstr(PatternMark, line)
    THEN [st EXCEPT !.relationships = Append(@, StripWs(line))]
    ELSE st

RECURSIVE ScanLines(_, _)
ScanLines(st, lines) ==
    IF lines = <<>> THEN st ELSE ScanLines(ScanLine(st, lines[1]), Tail(lines))

SeqRange(q) == {q[i] : i \in 1..Len(q)}

\* schema_digest returning the empty string when nothing was collected.
schema_digest_no_sentinel(st) ==
    JoinStr(Newline,
        (IF st.node_labels # <<>>
         THEN << NodeLabelsPrefix
                    \o JoinStr(CommaSpace, SortedSet(SeqRange(st.node_labels))) >>
         ELSE <<>>)
        \o (IF st.rel_types # <<>>
            THEN << RelationshipTypesPrefix
                       \o JoinStr(CommaSpace, SortedSet(SeqRange(st.rel_types))) >>
            ELSE <<>>)
        \o (IF st.relationships # <<>>
            THEN << KeyRelationshipsPrefix
                       \o JoinStr(Newline, Take(st.relationships, 10)) >>
            ELSE <<>>))

\* The summary built from what the loop collected.
schema_digest(st) ==
    LET summary_parts ==
            (IF st.node_labels # <<>>
             THEN << NodeLabelsPrefix
                        \o JoinStr(CommaSpace, SortedSet(SeqRange(st.node_labels))) >>
             ELSE <<>>)
            \o (IF st.rel_types # <<>>
                THEN << RelationshipTypesPrefix
                           \o JoinStr(CommaSpace, SortedSet(SeqRange(st.rel_types))) >>
                ELSE <<>>)
            \o (IF st.relationships # <<>>
                THEN << KeyRelationshipsPrefix
                           \o JoinStr(Newline, Take(st.relationships, 10)) >>
                ELSE <<>>)
    IN  IF summary_parts # <<>> THEN JoinStr(Newline, summary_parts)
        ELSE SchemaSummaryNotAvailable

summarize_schema_for_tool_selection(full_schema) ==
    IF full_schema = <<>> \/ full_schema = SchemaNotAvailable THEN full_schema
    ELSE schema_digest(ScanLines(ScanStart, SplitOn(full_schema, "\n")))

SchemaFull ==
    <<"N","o","d","e"," ","p","r","o","p","e","r","t","i","e","s",":","\n",
      ":",Backtick,"P","e","r","s","o","n",Backtick," ","{","n","a","m","e",":"," ",
      "S","T","R","I","N","G","}","\n"," "," ",":",Backtick,"C","i","t","y",Backtick,
      " ","{","}","\n",":",Backtick,"P","e","r","s","o","n",Backtick," ","{","a","g",
      "e",":"," ","I","N","T","}","\n","R","e","l","a","t","i","o","n","s",
      "h","i","p"," ","p","r","o","p","e","r","t","i","e","s",":","\n",":",
      Backtick,"K","N","O","W","S",Backtick," ","{","s","i","n","c","e",":"," ","I",
      "N","T","}","\n","T","h","e"," ","r","e","l","a","t","i","o","n","s",
      "h","i","p","s",":","\n","(",":","P","e","r","s","o","n",")","-","[",
      ":","K","N","O","W","S","]","-",">","(",":","P","e","r","s","o","n",
      ")","\n"," "," ","(",":","P","e","r","s","o","n",")","-","[",":","I",
      "N","]","-",">","(",":","C","i","t","y",")"," ">>
SchemaNodesOnly ==
    <<"#"," ","N","o","d","e"," ","p","r","o","p","e","r","t","i","e","s",
      ":","\n",":",Backtick,"B",Backtick," ","{","}","\n",":",Backtick,"A",Backtick," ","{","}",
      "\n",":",Backtick,Backtick," ","{","}","\n",":",Backtick,"O","p","e","n">>
SchemaNoHeaders ==
    <<"p","l","a","i","n"," ","t","e","x","t","\n",":",Backtick,"X",Backtick," ","{",
      "}","\n","(",":","A",")","-","[",":","R","]","-",">","(",":","B",")">>
SchemaHeadersOnly ==
    <<"N","o","d","e"," ","p","r","o","p","e","r","t","i","e","s",":","\n",
      "T","h","e"," ","r","e","l","a","t","i","o","n","s","h","i","p","s",
      ":","\n","n","o"," ","p","a","t","t","e","r","n"," ","h","e","r","e">>
SchemaOddLabels ==
    <<"R","e","l","a","t","i","o","n","s","h","i","p"," ","p","r","o","p",
      "e","r","t","i","e","s",":","\n",":",Backtick,"K","e","y"," ","r","e","l",
      "a","t","i","o","n","s","h","i","p","s",":",Backtick," ","{","}","\n",":",
      Backtick,"N","o","d","e"," ","l","a","b","e","l","s",":"," ","Z",Backtick," ",
      "{","}","\n","N","o","d","e"," ","p","r","o","p","e","r","t","i","e",
      "s",":","\n",":",Backtick,"T","h","e"," ","r","e","l","a","t","i","o","n",
      "s","h","i","p","s",Backtick," ","{","}">>

\* Schema texts handed to the summarizer.
UnitSchemas ==
    {<<>>, SchemaNotAvailable, SchemaSummaryNotAvailable, SchemaFull, SchemaNodesOnly,
     SchemaNoHeaders, SchemaHeadersOnly, SchemaOddLabels}

(***************************************************************************)
(* Direct calls of the agent's helpers on a constructed agent.             *)
(***************************************************************************)
QRankCommunity ==
    <<"r","a","n","k"," ","t","h","e"," ","c","o","m","m","u","n","i","t","y">>
QCommunityRank ==
    <<"C","o","m","m","u","n","i","t","y"," ","d","e","t","e","c","t","i","o","n"," ","a","n","d"," ","r","a","n","k">>
QManyGroups ==
    <<"r","a","n","k"," ","c","o","m","m","u","n","i","t","y"," ","c","l","u","s","t","e","r"," ","g","r","o","u","p">>
QCutEdgeSize ==
    <<"C","U","T"," ","E","D","G","E"," ","s","i","z","e">>
QCommunities ==
    <<"h","o","w"," ","m","a","n","y"," ","c","o","m","m","u","n","i","t","i","e","s">>
QSpringfield ==
    <<"S","h","o","w"," ","r","a","n","k","i","n","g","s"," ","i","n"," ","S","p","r","i","n","g","f","i","e","l","d"," ","a","n","d"," ","i","n"," ","L","a","k","e","v","i","e","w">>
QInOsloBergen ==
    <<"R","a","n","k"," ","i","n"," ","O","s","l","o",","," ","i","n"," ","B","e","r","g","e","n",".">>
UnitQuestions == Questions \cup {QRankCommunity, QCommunityRank, QManyGroups, QCutEdgeSize, QCommunities, QSpringfield, QInfluential, QInOsloBergen}

\* Override mappings handed to _prepare_inputs.
UnitOverrides ==
    {EmptyMap,
     [b |-> JNum("3")],
     [nodeIdentifierProperty |-> JStr("uuid")],
     [filterNames |-> JArr(<<JStr("Here")>>), a |-> JNum("9")]}

\* self._infer_tool(question)
InferTool ==
    /\ init_error = "none"
    /\ \E question \in UnitQuestions :
          unit' = [fn |-> "_infer_tool", question |-> question,
                   result |-> infer_tool(tool_configs, question)]
    /\ UNCHANGED <<agent_vars, neo_vars>>

\* self._extract_geo_filters(question)
ExtractGeoFilters ==
    /\ init_error = "none"
    /\ \E question \in UnitQuestions :
          unit' = [fn |-> "_extract_geo_filters", question |-> question,
                   result |-> extract_geo_filters(question)]
    /\ UNCHANGED <<agent_vars, neo_vars>>

\* self._prepare_inputs(config, question, overrides)
PrepareInputs ==
    /\ init_error = "none"
    /\ \E i \in 1..Len(tool_configs), question \in UnitQuestions,
          overrides \in UnitOverrides :
          /\ unit' = [fn |-> "_prepare_inputs", config |-> tool_configs[i],
                      question |-> question, overrides |-> overrides,
                      result |-> prepare_inputs(tool_configs[i], question, overrides,
                                                default_identifier_property)]
          /\ tool_configs' = registry_after_prepare(tool_configs[i].name, unit'.result)
    /\ UNCHANGED <<setup_vars, neo_vars, client, lock_vars, metadata_vars, backend, pc, frame,
                   runs, closes>>

\* self._summarize_schema_for_tool_selection(full_schema), on a schema text
\* or on the summary the previous call returned.
SummarizeSchema ==
    /\ init_error = "none"
    /\ \E full_schema \in UnitSchemas :
          unit' = [fn |-> "_summarize_schema_for_tool_selection",
                   full_schema |-> full_schema, again |-> FALSE,
                   result |-> summarize_schema_for_tool_selection(full_schema)]
    /\ UNCHANGED <<agent_vars, neo_vars>>

SummarizeSummary ==
    /\ init_error = "none"
    /\ unit.fn = "_summarize_schema_for_tool_selection"
    /\ unit' = [fn |-> "_summarize_schema_for_tool_selection",
                full_schema |-> unit.result, again |-> TRUE,
                result |-> summarize_schema_for_tool_selection(unit.result)]
    /\ UNCHANGED <<agent_vars, neo_vars>>

\* Tool metadata the selector may find: what _get_tool_metadata keeps of a
\* list_tools() result.
UnitMetadata ==
    {filter_tools(tools, tool_configs, allowed_tool_names) :
        tools \in {t \in ListToolsResults : ~ filter_raises(t)}}

\* self._select_tool_with_llm(question) from line 292 on, against a
\* completion backend that answers `first` to the request with a response
\* format and `second` to the one without.
SelectToolWithLlm ==
    /\ init_error = "none"
    /\ \E metadata \in UnitMetadata, schema \in SchemaOutcomes, first \in Completions :
          \E second \in (IF first.kind = "raises" THEN Completions ELSE {CompletionNone}) :
              LET result == select_tool_with_llm(tool_configs, metadata, schema,
                                                 first, second)
              IN  unit' = [fn |-> "_select_tool_with_llm", metadata |-> metadata,
                           schema |-> schema, first |-> first, second |-> second,
                           calls |-> IF result.completions = 0 THEN <<>>
                                     ELSE completion_calls(first, second),
                           result |-> result]
    /\ UNCHANGED <<agent_vars, neo_vars>>

UnitNext ==
    \/ SelectToolWithLlm
    \/ InferTool
    \/ ExtractGeoFilters
    \/ PrepareInputs
    \/ SummarizeSchema
    \/ SummarizeSummary

UnitSpec == Init /\ [][UnitNext]_vars

(***************************************************************************)
(* Properties.                                                             *)
(***************************************************************************)
RunFrame(p) == frame[p].op = "run"
AgentError(p) == frame[p].error.cls = "GraphAnalyticsAgentError"
Parts(msg) == {msg[i] : i \in DOMAIN msg}

\* C1: a run() without a caller-supplied tool name fails with the semantic
\* selection-exhausted error when semantic selection is enabled and the
\* selector yields nothing (the keyword matcher is not consulted and call_tool
\* is not invoked), and with the differently worded keyword error when
\* semantic selection is disabled and no keyword matches.
C1_SelectionExhausted ==
    /\ LlmExhaustedMsg # KeywordExhaustedMsg
    /\ \A p \in Procs :
          (RunFrame(p) /\ frame[p].tool_name_arg = NoTool) =>
             /\ (use_llm_selector /\ frame[p].selection = "none") =>
                   /\ pc[p] = "done"
                   /\ AgentError(p)
                   /\ frame[p].error.msg = LlmExhaustedMsg
                   /\ ~ frame[p].returned
                   /\ frame[p].infer_tool = 0
                   /\ frame[p].call_tool = 0
             /\ (~ use_llm_selector
                   /\ infer_tool(tool_configs, frame[p].question) = NoTool) =>
                   /\ pc[p] = "done"
                   /\ AgentError(p)
                   /\ frame[p].error.msg = KeywordExhaustedMsg
                   /\ ~ frame[p].returned
                   /\ frame[p].call_tool = 0

\* The completion backend answered and the selector still yielded nothing.
C1_Witness ==
    \E p \in Procs :
        /\ use_llm_selector
        /\ frame[p].tool_name_arg = NoTool
        /\ frame[p].selection = "none"
        /\ frame[p].completions >= 1
        /\ pc[p] = "done"

\* C2: every run() either returns a result or raises GraphAnalyticsAgentError,
\* whatever the metadata fetch, the schema provider, client initialization
\* and the completion backend do.
C2_OnlyAgentErrors ==
    \A p \in Procs :
        (pc[p] = "done" /\ RunFrame(p)) => (frame[p].returned \/ AgentError(p))

\* C3: when call_tool raises, run() fails with an execution error carrying the
\* tool name and the original message; nothing is returned or summarized;
\* call_tool is invoked at most once per run.
C3_ExecutionError ==
    \A p \in Procs :
        RunFrame(p) =>
           /\ frame[p].call_tool <= 1
           /\ frame[p].backend_exc # "none" =>
                 /\ pc[p] = "done"
                 /\ AgentError(p)
                 /\ JStr(frame[p].called_tool) \in Parts(frame[p].error.msg)
                 /\ JStr(frame[p].backend_exc) \in Parts(frame[p].error.msg)
                 /\ ~ frame[p].returned
                 /\ frame[p].summary = <<>>
                 /\ frame[p].result_content = <<>>
                 /\ frame[p].call_tool = 1

C3_Witness ==
    \E p \in Procs : pc[p] = "done" /\ frame[p].backend_exc = "timeout"

\* C4: a resolved tool name that is not in the registry fails the call with
\* the unknown-tool error before arguments are synthesized and before any
\* call_tool; call_tool only gets registry names and so does every result.
C4_RegisteredToolOnly ==
    \A p \in Procs :
        RunFrame(p) =>
           /\ (frame[p].tool_name # NoTool
                 /\ frame[p].tool_name \notin NamesOf(tool_configs)) =>
                 /\ pc[p] = "done"
                 /\ AgentError(p)
                 /\ frame[p].error.msg =
                       << JStr("Unsupported tool: "), JStr(frame[p].tool_name) >>
                 /\ ~ frame[p].prepared
                 /\ frame[p].call_tool = 0
                 /\ ~ frame[p].returned
           /\ (frame[p].call_tool > 0 => frame[p].called_tool \in NamesOf(tool_configs))
           /\ (frame[p].returned => frame[p].tool_name \in NamesOf(tool_configs))

C4_Witness ==
    \E p \in Procs :
        /\ pc[p] = "done"
        /\ RunFrame(p)
        /\ frame[p].tool_name # NoTool
        /\ frame[p].tool_name \notin NamesOf(tool_configs)

\* The layers an argument mapping is built from.
CallerLayer(f) == IF Truthy(f.inputs) THEN f.inputs.obj ELSE EmptyMap
SelectorLayer(f) == f.llm_suggested_inputs
DefaultsLayer(f) == ConfigOf(tool_configs, f.tool_name).defaults
HeuristicLayer(f) ==
    LET geos == extract_geo_filters(f.question)
    IN  IF geos # <<>>
        THEN [nodeIdentifierProperty |-> JStr(default_identifier_property),
              nodeLabels |-> JArr(<<JStr("Area"), JStr("Municipality")>>),
              filterNames |-> JArr([i \in 1..Len(geos) |-> JChars(geos[i])])]
        ELSE [nodeIdentifierProperty |-> JStr(default_identifier_property)]

\* args gives every key the value of the first layer that defines it.
FromLayers(layers, args) ==
    /\ DOMAIN args = UNION {DOMAIN layers[i] : i \in 1..Len(layers)}
    /\ \A k \in DOMAIN args :
          LET first == CHOOSE i \in 1..Len(layers) :
                          /\ k \in DOMAIN layers[i]
                          /\ \A j \in 1..Len(layers) : k \in DOMAIN layers[j] => i <= j
          IN  args[k] = layers[first][k]

\* C5 as stated: the arguments follow the order caller overrides > selector
\* inputs > geographic heuristic and injected identifier > tool defaults.
C5_HeuristicsOverDefaults ==
    \A p \in Procs :
        frame[p].prepared =>
            FromLayers(<<CallerLayer(frame[p]), SelectorLayer(frame[p]),
                         HeuristicLayer(frame[p]), DefaultsLayer(frame[p])>>,
                       frame[p].prepared_inputs)

\* C5 amended: the arguments follow the order caller overrides > selector
\* inputs > tool defaults > geographic heuristic and injected identifier.
C5_ArgumentPrecedence ==
    \A p \in Procs :
        frame[p].prepared =>
            FromLayers(<<CallerLayer(frame[p]), SelectorLayer(frame[p]),
                         DefaultsLayer(frame[p]), HeuristicLayer(frame[p])>>,
                       frame[p].prepared_inputs)

\* Defaults {a:1}, selector inputs {a:2,b:2}, overrides {b:3}: a=2 and b=3.
C5_Witness ==
    \E p \in Procs :
        /\ pc[p] = "call_tool"
        /\ DefaultsLayer(frame[p]) = [a |-> JNum("1")]
        /\ SelectorLayer(frame[p]) = [a |-> JNum("2"), b |-> JNum("2")]
        /\ CallerLayer(frame[p]) = [b |-> JNum("3")]
        /\ frame[p].prepared_inputs["a"] = JNum("2")
        /\ frame[p].prepared_inputs["b"] = JNum("3")

\* C6: with a caller-supplied tool name neither the completion backend, nor
\* list_tools, nor the keyword matcher is invoked, and the selector's inputs
\* are empty.
C6_ExplicitToolSkipsSelection ==
    \A p \in Procs :
        (RunFrame(p) /\ frame[p].tool_name_arg # NoTool) =>
           /\ frame[p].selection = "skipped"
           /\ frame[p].completions = 0
           /\ frame[p].list_tools = 0
           /\ frame[p].infer_tool = 0
           /\ frame[p].llm_suggested_inputs = EmptyMap
           /\ frame[p].ctx # "meta"
           /\ pc[p] # "list_tools"

C6_Witness ==
    \E p \in Procs :
        /\ use_llm_selector
        /\ frame[p].tool_name_arg # NoTool
        /\ pc[p] = "call_tool"

\* C7: while no close() has been called, at most one create_client is in
\* progress, none is in progress or started once one has succeeded, and every
\* call uses the one cached client.
C7_SingleClientInit ==
    closes = 0 =>
       /\ Cardinality({p \in Procs : pc[p] = "create_client"}) <= 1
       /\ (client # 0 => \A p \in Procs : pc[p] # "create_client")
       /\ Cardinality({c \in ClientIds : backend[c] # "new"}) <= 1
       /\ \A p \in Procs : frame[p].client \in {0, client}

\* Two runs race for the missing client: one creates it, the other waits.
C7_Witness ==
    /\ closes = 0
    /\ \E p, q \in Procs : pc[p] = "create_client" /\ pc[q] = "wait_lock"

\* C8: when close() returns on an agent that had a client, that client has
\* been closed and the cached reference is None; a backend call reached while
\* the reference is None goes through create_client and uses the new client;
\* close() without a client changes nothing.
C8_CloseClearsClient ==
    [][\A p \in Procs :
          /\ (pc[p] = "close" /\ pc'[p] = "done" /\ frame'[p].returned) =>
                (backend'[frame[p].client] = "closed" /\ client' = 0)
          /\ (pc[p] = "idle" /\ pc'[p] # "idle" /\ frame'[p].op = "close" /\ client = 0) =>
                /\ pc'[p] = "done"
                /\ frame'[p].returned
                /\ UNCHANGED <<client, backend, lock_vars, metadata_vars>>
          /\ (client = 0 /\ pc'[p] # pc[p] /\ pc'[p] \in {"list_tools", "call_tool"}) =>
                /\ pc[p] = "create_client"
                /\ backend[client'] = "new"
                /\ frame'[p].client = client'
      ]_vars

\* A client was closed and a later one is cached and in use.
C8_Witness ==
    \E p \in Procs, c \in ClientIds :
        /\ backend[c] = "closed"
        /\ client # 0
        /\ client # c
        /\ frame[p].client = client
        /\ pc[p] \in {"list_tools", "call_tool"}

\* C9: a fetch whose filtered result is empty leaves the cache unloaded and a
\* semantic call started then fetches again; a fetch with a matching tool
\* loads the cache, which stays loaded, and no call started after that
\* invokes list_tools.
C9_MetadataCache ==
    [][\A p \in Procs :
          /\ tool_metadata_loaded' = (DOMAIN tool_metadata' # {})
          /\ tool_metadata_loaded => tool_metadata_loaded'
          /\ (pc[p] = "list_tools" /\ frame'[p].fetched = "empty") =>
                UNCHANGED metadata_vars
          /\ (pc[p] = "list_tools" /\ frame'[p].fetched = "some") =>
                tool_metadata_loaded'
          /\ (pc[p] = "idle" /\ frame'[p].op = "run" /\ tool_metadata_loaded) =>
                (frame'[p].list_tools = 0 /\ frame'[p].ctx # "meta")
          /\ (pc[p] = "idle" /\ frame'[p].op = "run" /\ ~ tool_metadata_loaded
                /\ use_llm_selector /\ frame'[p].tool_name_arg = NoTool) =>
                /\ frame'[p].ctx = "meta"
                /\ client # 0 => (pc'[p] = "list_tools" /\ frame'[p].list_tools = 1)
      ]_vars

\* A semantic selection made from the cache, without list_tools.
C9_Witness ==
    \E p \in Procs :
        /\ tool_metadata_loaded
        /\ frame[p].selection = "selection"
        /\ frame[p].list_tools = 0
        /\ pc[p] = "call_tool"

\* C10: a run whose call_tool returned normally returns its result; when the
\* dedicated summarizer raised, the summary is the generic one: the no-results
\* message naming the tool, the single item's text, or the row count with
\* the first item.
C10_SummaryFallback ==
    \A p \in Procs :
        (RunFrame(p) /\ pc[p] = "done" /\ frame[p].call_tool = 1
            /\ frame[p].backend_exc = "none") =>
           /\ frame[p].returned
           /\ frame[p].error = NoError
           /\ LET config == ConfigOf(tool_configs, frame[p].tool_name)
                  content == frame[p].result_content
                  summary == frame[p].summary
              IN  (config.summary_builder # NoBuilder
                     /\ summary_builder(config.summary_builder, content).raised) =>
                     IF content = <<>>
                     THEN summary = << JStr("Tool '"), JStr(config.name),
                                       JStr("' returned no results.") >>
                     ELSE IF Len(content) = 1 /\ "text" \in DOMAIN content[1].obj
                     THEN summary = << content[1].obj["text"] >>
                     ELSE /\ Len(summary) = 6
                          /\ summary[2] = JStr(config.name)
                          /\ summary[4] = IntText(Len(content))
                          /\ summary[6] = JsonDumps(JArr(<<content[1]>>))

\* The built-in ranking summarizer raised on rows that are not mappings.
C10_Witness ==
    \E p \in Procs :
        /\ frame[p].returned
        /\ RunFrame(p)
        /\ frame[p].tool_name = "article_rank"
        /\ summary_builder("summarize_rankings", frame[p].result_content).raised

\* C11: the registry is the supplied descriptor list (the built-in one when
\* none is supplied), in order, filtered by the allow-list when it is
\* non-empty; construction raised exactly when that registry is empty; with a
\* non-empty allow-list the registry names are a subset of it, in every state
\* reached by run() and close() calls.
C11_RegistryFromAllowList ==
    LET configs == IF IsNone(tool_configs_arg) THEN build_default_configs
                   ELSE tool_configs_arg.arr
        kept == {i \in 1..Len(configs) :
                    allowed_tool_names = {} \/ configs[i].name \in allowed_tool_names}
    IN  /\ Len(tool_configs) = Cardinality(kept)
        /\ \A i \in kept :
              tool_configs[Cardinality({j \in kept : j <= i})] = configs[i]
        /\ init_error = (IF kept = {} THEN "ValueError" ELSE "none")
        /\ init_error # "none" => (runs = 0 /\ closes = 0)
        /\ allowed_tool_names # {} => NamesOf(tool_configs) \subseteq allowed_tool_names

\* An allow-list that removed descriptors, after run() and close() calls.
C11_Witness ==
    /\ allowed_tool_names # {}
    /\ IsNone(tool_configs_arg)
    /\ Len(tool_configs) < Len(build_default_configs)
    /\ runs > 0
    /\ closes > 0
    /\ \A p \in Procs : pc[p] = "idle"

\* Keyword k of tool i occurs in the question, ignoring case.
Occurs(i, k, question) ==
    \E at \in 0..(Len(question) - Len(tool_configs[i].keywords[k])) :
        \A c \in 1..Len(tool_configs[i].keywords[k]) :
            LowerChar(question[at + c]) = LowerChar(tool_configs[i].keywords[k][c])

ToolOccurs(i, question) ==
    \E k \in 1..Len(tool_configs[i].keywords) : Occurs(i, k, question)

\* C12 as stated: whenever a keyword registered to exactly one tool occurs in
\* the question as a substring, ignoring case, _infer_tool returns that tool.
C12_UniqueKeywordWins ==
    unit.fn = "_infer_tool" =>
        \A i \in 1..Len(tool_configs) :
            \A k \in 1..Len(tool_configs[i].keywords) :
                (/\ Occurs(i, k, unit.question)
                 /\ \A j \in 1..Len(tool_configs) :
                       j # i => \A l \in 1..Len(tool_configs[j].keywords) :
                                   tool_configs[j].keywords[l] # tool_configs[i].keywords[k])
                    => unit.result = tool_configs[i].name

\* C12 amended: whenever keywords of exactly one tool occur in the question
\* as substrings, ignoring case, _infer_tool returns that tool.
C12_OnlyMatchingToolWins ==
    unit.fn = "_infer_tool" =>
        \A i \in 1..Len(tool_configs) :
            (/\ ToolOccurs(i, unit.question)
             /\ \A j \in 1..Len(tool_configs) : j # i => ~ ToolOccurs(j, unit.question))
                => unit.result = tool_configs[i].name

\* Only the fourth keyword of the first built-in tool occurs, in upper case.
C12_Witness ==
    /\ unit.fn = "_infer_tool"
    /\ unit.question = QRankIt
    /\ Len(tool_configs) = 4
    /\ Occurs(1, 4, unit.question)
    /\ \A j \in 2..4 : ~ ToolOccurs(j, unit.question)
    /\ unit.result = "article_rank"

\* C14: the mapping _prepare_inputs returns always has nodeIdentifierProperty;
\* without an override for it, it is the tool's default when the defaults
\* define one and the agent's identifier property otherwise.
C14_IdentifierInjected ==
    unit.fn = "_prepare_inputs" =>
        /\ "nodeIdentifierProperty" \in DOMAIN unit.result
        /\ unit.result["nodeIdentifierProperty"] =
              IF "nodeIdentifierProperty" \in DOMAIN unit.overrides
              THEN unit.overrides["nodeIdentifierProperty"]
              ELSE IF "nodeIdentifierProperty" \in DOMAIN unit.config.defaults
              THEN unit.config.defaults["nodeIdentifierProperty"]
              ELSE JStr(default_identifier_property)

\* A tool whose defaults define another identifier than the agent's.
C14_Witness ==
    /\ unit.fn = "_prepare_inputs"
    /\ "nodeIdentifierProperty" \in DOMAIN unit.config.defaults
    /\ "nodeIdentifierProperty" \notin DOMAIN unit.overrides
    /\ unit.config.defaults["nodeIdentifierProperty"] # JStr(default_identifier_property)
    /\ unit.result["nodeIdentifierProperty"] = JStr("id")

\* C15 as stated: "Show rankings in Springfield and in Lakeview" yields the
\* two terms "Springfield and" and "Lakeview".
C15_TwoTerms ==
    (unit.fn = "_extract_geo_filters" /\ unit.question = QSpringfield) =>
        unit.result =
            << <<"S","p","r","i","n","g","f","i","e","l","d"," ","a","n","d">>,
               <<"L","a","k","e","v","i","e","w">> >>

\* C15 amended: "Show rankings in Springfield and in Lakeview" yields the one
\* term "Springfield and in Lakeview": the run after "in " takes the spaces
\* and the second "in" with it.
C15_OneGreedyTerm ==
    (unit.fn = "_extract_geo_filters" /\ unit.question = QSpringfield) =>
        unit.result =
            << <<"S","p","r","i","n","g","f","i","e","l","d"," ","a","n","d"," ","i","n"," ","L","a","k","e","v","i","e","w">> >>

C15_Witness ==
    /\ unit.fn = "_extract_geo_filters"
    /\ unit.question = QSpringfield
    /\ Len(unit.result) = 1

\* Keyword k of tool i matches by one of the three rules of _infer_tool.
RuleMatches(i, k, question) ==
    LET kw == [c \in 1..Len(tool_configs[i].keywords[k]) |->
                  LowerChar(tool_configs[i].keywords[k][c])]
        normalized == [c \in 1..Len(question) |-> LowerChar(question[c])]
        tokens == Split(normalized)
    IN  \/ IsSubstr(kw, normalized)
        \/ \E t \in 1..Len(tokens) : IsSubstr(kw, tokens[t])
        \/ \E t \in 1..Len(tokens) : StartsWith(tokens[t], kw)

Matching(question) ==
    {i \in 1..Len(tool_configs) :
        \E k \in 1..Len(tool_configs[i].keywords) : RuleMatches(i, k, question)}

ScenarioRun(p, question) ==
    /\ tool_configs_arg = JArr(ScenarioConfigs)
    /\ ~ use_llm_selector
    /\ RunFrame(p)
    /\ frame[p].tool_name_arg = NoTool
    /\ frame[p].question = question

\* C13 as stated: with the registry of one ranking tool with keywords
\* ("influencer", "rank"), the selector disabled and the question "Who are
\* the most influential people?", run() selects the ranking tool, calls
\* call_tool and returns a result.
C13_InfluentialSelectsRanking ==
    \A p \in Procs :
        (ScenarioRun(p, QInfluential) /\ pc[p] = "done") =>
            /\ frame[p].tool_name = "ranking"
            /\ frame[p].call_tool = 1
            /\ frame[p].backend_exc = "none" => frame[p].returned

\* C13 amended: with that registry and the selector disabled, the question
\* "Who are the most influential people?" matches no keyword and run() fails
\* with the keyword selection-exhausted error without call_tool; the question
\* "Rank it" selects the ranking tool through the keyword matcher, call_tool
\* gets the defaults and the identifier property, and the rows
\* [{name: Alice, score: 0.9}] are summarized naming Alice and 0.9.
C13_RankingScenario ==
    \A p \in Procs :
        /\ ScenarioRun(p, QInfluential) =>
              /\ pc[p] = "done"
              /\ frame[p].infer_tool = 1
              /\ frame[p].tool_name = NoTool
              /\ AgentError(p)
              /\ frame[p].error.msg = KeywordExhaustedMsg
              /\ frame[p].call_tool = 0
              /\ ~ frame[p].returned
        /\ ScenarioRun(p, QRankIt) =>
              /\ frame[p].infer_tool = 1
              /\ frame[p].tool_name = "ranking"
              /\ frame[p].prepared
              /\ IsNone(frame[p].inputs) =>
                    frame[p].prepared_inputs =
                        [maxIterations |-> JNum("20"),
                         nodeIdentifierProperty |-> JStr(default_identifier_property)]
              /\ frame[p].call_tool > 0 =>
                    frame[p].called_tool = "ranking"
              /\ (frame[p].returned /\ frame[p].result_content =
                     << JObj([json |-> JArr(<<JObj([name |-> JStr("Alice"),
                                                    score |-> JNum("0.9")])>>)]) >>) =>
                    /\ pc[p] = "done"
                    /\ JStr("Alice") \in Parts(frame[p].summary)
                    /\ JNum("0.9") \in Parts(frame[p].summary)

\* The scenario's question ended in the keyword error.
C13_Witness ==
    \E p \in Procs :
        /\ ScenarioRun(p, QInfluential)
        /\ pc[p] = "done"
        /\ frame[p].error.msg = KeywordExhaustedMsg

HasSectionHeader(text) ==
    \/ IsSubstr(HeaderNodeProperties, text)
    \/ IsSubstr(HeaderRelationshipProperties, text)
    \/ IsSubstr(HeaderTheRelationships, text)

\* C16: the schema summarizer returns the empty text and the "Graph schema
\* not available." sentinel unchanged; a text without section header gives
\* the "summary not available" sentinel; a summary it has built contains no
\* section header, so summarizing it gives that sentinel, which is a fixed
\* point.
C16_SchemaSummaryFixedPoint ==
    unit.fn = "_summarize_schema_for_tool_selection" =>
        IF unit.full_schema = <<>> \/ unit.full_schema = SchemaNotAvailable
        THEN unit.result = unit.full_schema
        ELSE /\ unit.result # <<>>
             /\ ~ HasSectionHeader(unit.result)
             /\ ~ HasSectionHeader(unit.full_schema) =>
                   unit.result = SchemaSummaryNotAvailable
             /\ unit.again => unit.result = SchemaSummaryNotAvailable
             /\ unit.full_schema = SchemaSummaryNotAvailable =>
                   unit.result = SchemaSummaryNotAvailable

\* A summary with labels, types and patterns was summarized again.
C16_Witness ==
    /\ unit.fn = "_summarize_schema_for_tool_selection"
    /\ unit.again
    /\ IsSubstr(NodeLabelsPrefix, unit.full_schema)
    /\ IsSubstr(RelationshipTypesPrefix, unit.full_schema)
    /\ IsSubstr(KeyRelationshipsPrefix, unit.full_schema)
    /\ unit.result = SchemaSummaryNotAvailable

\* C17: a GraphAnalyticsResult exists only after call_tool returned normally
\* and reports that call: tool_name is the name call_tool got, inputs the
\* mapping call_tool got, raw_result the sequence call_tool returned.
C17_ResultReportsCall ==
    \A p \in Procs :
        /\ (RunFrame(p) /\ frame[p].returned) <=> ~ IsNone(frame[p].result)
        /\ ~ IsNone(frame[p].result) =>
              /\ pc[p] = "done"
              /\ frame[p].call_tool = 1
              /\ frame[p].backend_exc = "none"
              /\ frame[p].error = NoError
              /\ ~ IsNone(frame[p].backend_result)
              /\ frame[p].result.tool_name = frame[p].called_tool
              /\ frame[p].result.inputs = frame[p].called_inputs
              /\ frame[p].result.raw_result = frame[p].backend_result.arr

\* A result for a call with overrides, selector inputs and extracted filters.
C17_Witness ==
    \E p \in Procs :
        /\ ~ IsNone(frame[p].result)
        /\ Truthy(frame[p].inputs)
        /\ frame[p].result.inputs # frame[p].inputs.obj
        /\ frame[p].result.raw_result # <<>>

\* The selector got as far as the completion backend.
SelectorAsked ==
    unit.fn = "_select_tool_with_llm" /\ unit.result.completions > 0

\* The text of a completion is missing or whitespace only.
EmptyCompletion(c) ==
    c.kind = "none" \/ (c.kind = "text" /\ \A i \in 1..Len(c.lines) : c.lines[i] = BlankLine)

\* C19: the completion backend is first called with a response format; it is
\* called once more, without the format, exactly when that call raised; if
\* the second call raises too, or the completion is empty or whitespace
\* only, there is no selection; so there are at most two calls and no second
\* call after a first one that returned.
C19_CompletionRetry ==
    unit.fn = "_select_tool_with_llm" =>
        /\ unit.result.completions = Len(unit.calls)
        /\ Len(unit.calls) <= 2
        /\ SelectorAsked =>
              /\ unit.calls[1].response_format = "json_object"
              /\ unit.calls[1].outcome = unit.first
              /\ (Len(unit.calls) = 2) <=> (unit.first.kind = "raises")
              /\ Len(unit.calls) = 2 =>
                    /\ unit.calls[2].response_format = "none"
                    /\ unit.calls[2].outcome = unit.second
                    /\ unit.second.kind = "raises" => unit.result.kind = "none"
              /\ EmptyCompletion(unit.calls[Len(unit.calls)].outcome) =>
                    unit.result.kind = "none"

\* The first call raised and the second one gave a selection.
C19_Witness ==
    /\ SelectorAsked
    /\ unit.first.kind = "raises"
    /\ Len(unit.calls) = 2
    /\ unit.result.kind = "selection"

\* The completion is an exception, empty, malformed JSON or a JSON object.
CoveredCompletion(c) ==
    \/ c.kind = "raises"
    \/ EmptyCompletion(c)
    \/ (c.kind = "text" /\ ~ JsonParses(Unfence(StripText(c.lines))))
    \/ (c.kind = "text" /\ JsonParses(Unfence(StripText(c.lines)))
          /\ IsDict(JsonLoads(Unfence(StripText(c.lines)))))

\* C20: for a completion that is an exception, empty, malformed JSON or a
\* JSON object, the selector returns, without raising, no-selection or a
\* selection of a registry name with a mapping as inputs.
C20_SelectorNeverRaises ==
    (SelectorAsked /\ CoveredCompletion(unit.calls[Len(unit.calls)].outcome)) =>
        \/ unit.result.kind = "none"
        \/ /\ unit.result.kind = "selection"
           /\ unit.result.tool \in NamesOf(tool_configs)

\* The filtered result of one list_tools() answer.
OneFetch(metadata) ==
    \E tools \in ListToolsResults :
        /\ ~ filter_raises(tools)
        /\ metadata = filter_tools(tools, tool_configs, allowed_tool_names)

\* C21: with semantic calls that overlap and both fetch, the metadata cache
\* is at every moment empty or exactly the filtered result of one fetch; its
\* keys are registry names, and allow-listed names when there is an
\* allow-list; the loaded flag is set only with a non-empty cache; and a
\* non-empty cache never becomes empty again.
C21_CacheFullReplace ==
    [][/\ (DOMAIN tool_metadata' = {} \/ OneFetch(tool_metadata'))
       /\ DOMAIN tool_metadata' \subseteq NamesOf(tool_configs)
       /\ (allowed_tool_names # {} => DOMAIN tool_metadata' \subseteq allowed_tool_names)
       /\ (tool_metadata_loaded' => DOMAIN tool_metadata' # {})
       /\ (DOMAIN tool_metadata # {} => DOMAIN tool_metadata' # {})
      ]_vars

\* Two calls that both found no usable cache have each fetched a matching
\* tool list, the second answer differing from the first.
C21_Witness ==
    \E p, q \in Procs :
        /\ p # q
        /\ frame[p].list_tools = 1 /\ frame[p].fetched = "some"
        /\ frame[q].list_tools = 1 /\ frame[q].fetched = "some"
        /\ Len(tool_configs) = 2
        /\ DOMAIN tool_metadata = {"plain_tool"}
        /\ tool_metadata["plain_tool"].obj["description"] = JStr("v2")

\* C22: in the mapping _prepare_inputs builds before the overrides (the
\* selector's inputs merged with the caller's) are applied: with a geographic
\* term in the question and defaults defining neither nodeLabels nor
\* filterNames, nodeLabels is [Area, Municipality] and filterNames the
\* extracted terms; a nodeLabels or filterNames of the defaults is never
\* replaced; without a term neither key is added.
C22_GeoHeuristic ==
    unit.fn = "_prepare_inputs" =>
        LET defaults == unit.config.defaults
            terms == extract_geo_filters(unit.question)
            geo_keys == {"nodeLabels", "filterNames"}
            untouched == geo_keys \ DOMAIN unit.overrides
        IN  /\ (terms # <<>> /\ geo_keys \cap DOMAIN defaults = {}) =>
                  /\ "nodeLabels" \in untouched =>
                        unit.result["nodeLabels"] = JArr(<<JStr("Area"), JStr("Municipality")>>)
                  /\ "filterNames" \in untouched =>
                        unit.result["filterNames"] =
                            JArr([i \in 1..Len(terms) |-> JChars(terms[i])])
            /\ \A k \in untouched \cap DOMAIN defaults : unit.result[k] = defaults[k]
            /\ terms = <<>> =>
                  \A k \in untouched \ DOMAIN defaults : k \notin DOMAIN unit.result

\* "rank in Oslo" for a tool without geographic defaults, no overrides.
C22_Witness ==
    /\ unit.fn = "_prepare_inputs"
    /\ unit.question = QRankInOslo
    /\ unit.overrides = EmptyMap
    /\ {"nodeLabels", "filterNames"} \cap DOMAIN unit.config.defaults = {}
    /\ unit.result["nodeLabels"] = JArr(<<JStr("Area"), JStr("Municipality")>>)
    /\ unit.result["filterNames"] = JArr(<<JChars(<<"O","s","l","o">>)>>)

\* C23: after every step of every run() and close() call, successful or
\* failing, the registry is the one construction built: the same names in the
\* same order and, for each descriptor, the same defaults mapping, key by
\* key; argument synthesis writes to a copy of the defaults.
C23_RegistryImmutable ==
    LET constructed == BuildRegistry(tool_configs_arg, allowed_tool_names)
    IN  /\ Len(tool_configs) = Len(constructed)
        /\ \A i \in 1..Len(tool_configs) :
              /\ tool_configs[i].name = constructed[i].name
              /\ DOMAIN tool_configs[i].defaults = DOMAIN constructed[i].defaults
              /\ \A k \in DOMAIN constructed[i].defaults :
                    tool_configs[i].defaults[k] = constructed[i].defaults[k]

\* A run returned arguments that differ from its tool's defaults, another
\* run failed, and a close() was made.
C23_Witness ==
    \E p, q \in Procs :
        /\ pc[p] = "done" /\ frame[p].op = "run" /\ frame[p].returned
        /\ frame[p].prepared_inputs # ConfigOf(tool_configs, frame[p].tool_name).defaults
        /\ DOMAIN ConfigOf(tool_configs, frame[p].tool_name).defaults
              # DOMAIN frame[p].prepared_inputs
        /\ pc[q] = "done" /\ frame[q].op = "run" /\ frame[q].error # NoError
        /\ runs = 2
        /\ closes = 1

\* The step issues list_tools or call_tool for p.
IssuesBackendCall(p) ==
    /\ frame'[p].op = "run"
    /\ pc'[p] \in {"list_tools", "call_tool"}
    /\ \/ frame'[p].list_tools > frame[p].list_tools
       \/ frame'[p].call_tool > frame[p].call_tool

\* C24: under any interleaving of run() and close() calls, list_tools and
\* call_tool are only ever invoked on a client whose close() has neither
\* started nor completed.
C24_NoCallOnClosedClient ==
    [][\A p \in Procs :
          IssuesBackendCall(p) => backend'[frame'[p].client] = "open"]_vars

\* create_client() raises for p in this step.
CreateClientFails(p) == pc[p] = "create_client" /\ pc'[p] = "done"

\* C25: when create_client raises under the initialization lock, the lock
\* leaves the failed coroutine (it goes to the first waiter, or is free) and
\* the client reference stays unset, and a coroutine that gets the lock while
\* the reference is unset calls create_client again; if every collaborator
\* call returns or raises, a held lock is eventually free and every run()
\* eventually ends.
C25_InitNeverWedges ==
    /\ [][\A p \in Procs :
            /\ CreateClientFails(p) =>
                  /\ client = 0 /\ client' = 0
                  /\ client_lock = p
                  /\ client_lock' = (IF lock_waiters = <<>> THEN NoProc
                                                            ELSE Head(lock_waiters))
            /\ (pc[p] = "wait_lock" /\ pc'[p] # "wait_lock" /\ client = 0) =>
                  (pc'[p] = "create_client"
                     /\ frame'[p].create_client = frame[p].create_client + 1)
            /\ (pc[p] = "idle" /\ frame'[p].op = "run" /\ client = 0
                  /\ client_lock = NoProc /\ pc'[p] # "done") =>
                  pc'[p] = "create_client"
        ]_vars
    /\ (client_lock # NoProc) ~> (client_lock = NoProc)
    /\ \A p \in Procs :
          (frame[p].op = "run" /\ pc[p] # "done") ~> (pc[p] = "done")

\* create_client raised for one run while another waited for the lock; the
\* waiting run created the client itself and returned a result.
C25_Witness ==
    \E p, q \in Procs :
        /\ p # q
        /\ pc[p] = "done" /\ frame[p].op = "run"
        /\ frame[p].create_client = 1 /\ frame[p].client = 0
        /\ frame[p].error = OtherError("CreateClientError")
        /\ pc[q] = "done" /\ frame[q].op = "run"
        /\ frame[q].create_client = 1 /\ frame[q].client # 0
        /\ frame[q].returned
        /\ client_lock = NoProc

\* C26: after any sequence of get_driver() and close_driver() calls, a driver
\* that get_driver() returned has passed verify_connectivity; a get_driver()
\* that raised leaves no driver cached; a cached driver is the one that
\* get_driver() returns; and after close_driver() no driver is cached, even
\* when closing raised.
C26_DriverSingleton ==
    /\ (neo_call.fn = "get_driver" /\ neo_call.outcome = "returned") =>
          /\ neo_call.driver = driver
          /\ drivers[neo_call.driver].verified
    /\ (neo_call.fn = "get_driver" /\ neo_call.outcome # "returned") => driver = 0
    /\ neo_call.fn = "close_driver" => driver = 0
====
